---------------------------- MODULE Spec2Model ----------------------------
(***************************************************************************)
(* A model of go-hop-exchange: the replication engine (Dispatch,           *)
(* AuthorizePull, ValidatePull) of package exchange and the funds-request  *)
(* merging and message-completion listeners of package payments.           *)
(*                                                                         *)
(* The module holds several specifications, one per subsystem; each keeps  *)
(* the variables of the other subsystems at their initial values.          *)
(*   SpecDispatch  one Dispatch call, its transport events and its caller  *)
(*   SpecPull      AuthorizePull / ValidatePull on the pulls map           *)
(*   SpecFunds     one mergedFundsReq, its fundsReqs and their callers     *)
(*   SpecMsg       msgListeners and the message waiters                    *)
(*   SpecChan      one channel: create, addFunds, waiters and multiLock    *)
(***************************************************************************)
EXTENDS Integers, Sequences, FiniteSets, TLC

(***************************************************************************)
(* Bounds of the model.                                                    *)
(***************************************************************************)
NumPeers == 2
MaxRF == 2
MaxBackoffAttemps == 1
MaxRepeatedEvents == 1
NumReqs == 2
NumCallbacks == 2
MaxQueued == 2
MaxAmt == 2
MaxMissingKeys == 2
NumCallers == 2

(***************************************************************************)
(* Region codes (package supply).                                          *)
(***************************************************************************)
AsiaRegion == 1
AfricaRegion == 2
EuropeRegion == 5

PeerIDs == 1 .. NumPeers

Cids == {"cidA", "cidB"}

\* The regions each connected peer advertised in its Hey handshake.
PeerRegions(p) ==
    CASE p = 1 -> {AsiaRegion}
      [] p = 2 -> {AsiaRegion, AfricaRegion}
      [] OTHER -> {AfricaRegion}

\* The region sets a node is constructed with (NewReplication's rgs).
NodeRegionSets == {{AsiaRegion}, {AfricaRegion}, {EuropeRegion}}

\* type Request struct { PayloadCID; Size }, and a voucher of another type.
Request(c) == [type |-> "DispatchRequestVoucher", PayloadCID |-> c]

OtherVoucher(c) == [type |-> "OtherVoucher", PayloadCID |-> c]

Vouchers == {Request(c) : c \in Cids} \cup {OtherVoucher(c) : c \in Cids}

\* type PRecord struct { Provider; PayloadCID }
PRecord(p, c) == [Provider |-> p, PayloadCID |-> c]

VARIABLES
    \* ---- Replication
    rgs,            \* Replication.rgs
    pulls,          \* Replication.pulls: cid -> set of peers (a partial map)
    \* ---- one Dispatch(req, opt) call
    req,            \* req.PayloadCID
    optRF,          \* opt.RF
    optAttemps,     \* opt.BackoffAttemps
    dpc,            \* the dispatcher goroutine: "requests", "wait", "done"
    rcv,            \* the peers we already sent requests to
    attempt,        \* b.Attempt()
    n,              \* the number of confirmations received so far
    resChan,        \* chan PRecord, capacity opt.RF
    out,            \* chan PRecord, capacity opt.RF, the returned channel
    outClosed,      \* close(out) happened
    subscribed,     \* the event subscriber is registered (unsub not called)
    recs,           \* what the caller has read from out, in order
    \* ---- the network and the transport
    delivered,      \* peers whose stream carried the Request to them
    ts,             \* per peer: the state of its pull of req.PayloadCID
    evts,           \* events reported for transfers that had completed before
    rounds,         \* history: per round, what was asked of PeerMgr and sent
    completedEvts,  \* history: the recipients of the Completed events, in order
    \* ---- the callers of AuthorizePull and ValidatePull
    authCalls,      \* the (cid, peer) pairs AuthorizePull was called with
    vcall,          \* the latest ValidatePull call of SpecPull and its result
    \* ---- the fundsReqs of one mergedFundsReq m, and the callers that wait
    \* ---- on their promises
    active,         \* fundsReq.active
    merge,          \* fundsReq.merge is set (to m)
    cst,            \* the caller of each fundsReq, see FundsCallerStates
    cm,             \* cancel(): its local m is not nil
    ci,             \* cancel() in checkActive: the request it examines next
    ctxCancelled,   \* m.cancel() was called: m.ctx is done
    opc,            \* the goroutine that owns m, see OwnerStates
    oi,             \* the request the owner's current loop examines next
    acc,            \* sum(): the local sum, and the value returned
    activeSeen,     \* the sets of active requests there were during sum()
    res,            \* the *paychFundsRes passed to m.onComplete
    got,            \* what each caller received on its promise
    \* ---- the messages of a channel, their waiters and msgListeners
    waiter,         \* per message cid: its waiter, see WaiterStates
    msgResult,      \* the store: what SaveMessageResult(mcid, err) recorded
    subs,           \* msgListeners.ps: the callbacks that are subscribed
    cbCid,          \* per callback: the mcid it was registered with
    cbLate,         \* per callback: registered after the waiter of its mcid
    invoked,        \* per callback: the events cb was called for, in order
    published,      \* the events fireMsgComplete handed to ps.Publish
    \* ---- one channel: its record in the store, its lock, the goroutine
    \* ---- that processes its funds queue and the waiters of its messages
    chanInfo,       \* the store's ChannelInfo of the channel, or NoChannelInfo
    chanLock,       \* multiLock.chanLock: "free" or the goroutine holding it
    readers,        \* multiLock.globalLock: the goroutines holding it (RLock)
    cpc,            \* the queue processor, see CallerStates
    clocal,         \* addFunds in mutateChannelInfo: the channelInfo it read
    camt,           \* addFunds: its amt
    queue,          \* len(ch.fundsReqQueue)
    nmsg,           \* the number of messages pushed so far
    kind,           \* per message cid: "none", "create" or "addfunds"
    wpc,            \* per message cid: its waiter goroutine, see WaiterPcs
    wout,           \* per message cid: what StateWaitMsg returned
    werr,           \* per message cid: the err of wait...Msg
    wlocal,         \* per waiter in mutateChannelInfo: the channelInfo it read
    wpre,           \* per message cid: the record when its waiter started
    xpc,            \* an operation of another channel, see OtherStates
    \* ---- one round of Dispatch statement by statement, and the peers that
    \* ---- handle the Request (handleRequest)
    sendPeers,      \* providers, the slice the round iterates over
    spc,            \* the round, see SendStates
    si,             \* the index of the current loop in sendPeers
    streams,        \* per peer: its RequestStream, see NoStream
    hpc,            \* per peer: its handleRequest, see HandlerStates
    refs,           \* per peer: its Index holds a DataRef of req.PayloadCID
    storeID,        \* per peer: the StoreID of that DataRef, 0 without one
    lastEvt,        \* the event last handed to the subscriber of NewReplication
    blocks,         \* per peer: its store holds the blocks of req.PayloadCID
    \* ---- one retrieval of node.Load, from the end of the transfer
    lpc,            \* the goroutine of Load, see LoadStates
    argsKey,        \* args.Key
    resErr,         \* res.Err of tx.Done() is not nil
    payCh,          \* res.PayCh != address.Undef
    mk,             \* len(mk): the keys of the root that are still missing
    remain,         \* remain: ConfirmedAmt - VoucherRedeemedAmt
    omg,            \* nd.omg holds an offer for the root
    index,          \* nd.exch.Index(): the ref it holds for the root
    setRefErr,      \* the err of Index().SetRef(tx.Ref())
    results,        \* what Load passed to a send on results, in order
    consumer,       \* the reader of results, see ConsumerStates
    received,       \* what the reader received from results, in order
    \* ---- the node: its transaction mutex and the callers of its operations
    txmu,           \* nd.txmu: 0 when free, else the caller that holds it
    tx,             \* nd.tx != nil
    tpc,            \* per caller: where it is in its operation, see TxStates
    top,            \* per caller: the operation it runs, see TxOps
    \* ---- the subscriber of Dispatch as a goroutine of its own
    sending,        \* the records of the callbacks that are in "resChan <- rec"
    \* ---- the operations on all channels
    gw              \* the writer of globalLock, see WriterStates

dispatchVars ==
    <<rgs, req, optRF, optAttemps, dpc, rcv, attempt, n, resChan, out,
      outClosed, subscribed, recs, delivered, ts, evts, rounds, completedEvts>>

fundsVars ==
    <<active, merge, cst, cm, ci, ctxCancelled, opc, oi, acc, activeSeen, res,
      got>>

msgVars == <<waiter, msgResult, subs, cbCid, cbLate, invoked, published>>

chanVars ==
    <<chanInfo, chanLock, readers, cpc, clocal, camt, queue, nmsg, kind, wpc,
      wout, werr, wlocal, wpre, xpc>>

sendVars ==
    <<sendPeers, spc, si, streams, hpc, refs, storeID, lastEvt,
      blocks>>

loadVars ==
    <<lpc, argsKey, resErr, payCh, mk, remain, omg, index, setRefErr, results,
      consumer, received>>

nodeVars == <<txmu, tx, tpc, top>>
callbackVars == <<sending>>
globalVars == <<gw>>

vars ==
    <<pulls, authCalls, vcall, dispatchVars, fundsVars, msgVars, chanVars,
      sendVars, loadVars, nodeVars, callbackVars, globalVars>>

\* No ValidatePull call was made yet.
NoCall ==
    [receiver |-> 0, voucher |-> Request("cidA"), baseCid |-> "cidA",
     result |-> "no call"]

\* The variables that the actions of one subsystem leave alone.
notDispatchVars == <<vcall, fundsVars, msgVars, chanVars, sendVars, loadVars, nodeVars, callbackVars, globalVars>>

notPullVars ==
    <<dispatchVars, fundsVars, msgVars, chanVars, sendVars, loadVars, nodeVars, callbackVars, globalVars>>

notFundsVars ==
    <<pulls, authCalls, vcall, dispatchVars, msgVars, chanVars, sendVars,
      loadVars, nodeVars, callbackVars, globalVars>>

notMsgVars ==
    <<pulls, authCalls, vcall, dispatchVars, fundsVars, chanVars, sendVars,
      loadVars, nodeVars, callbackVars, globalVars>>

notChanVars ==
    <<pulls, authCalls, vcall, dispatchVars, fundsVars, sendVars, loadVars, nodeVars, callbackVars, globalVars>>

\* No event was handed to the subscriber yet.
NoEvent == [node |-> 0, code |-> "none", recipient |-> 0, baseCid |-> "cidA"]

\* What happened to the RequestStream of a peer: the calls of
\* NewRequestStream, those that returned a stream, the calls of WriteRequest
\* and of Close.
NoStream == [tried |-> 0, opened |-> 0, written |-> 0, closed |-> 0]

\* No round is examined statement by statement, no peer handles a Request.
NoSend ==
    /\ sendPeers = << >>
    /\ spc = "done"
    /\ si = 1
    /\ streams = [p \in PeerIDs |-> NoStream]
    /\ hpc = [p \in PeerIDs |-> "idle"]
    /\ refs = [p \in PeerIDs |-> FALSE]
    /\ storeID = [p \in PeerIDs |-> 0]
    /\ lastEvt = NoEvent
    /\ blocks = [p \in PeerIDs |-> FALSE]

Callers == 1 .. NumCallers

\* No operation of the node is running.
NoNode ==
    /\ txmu = 0
    /\ tx = FALSE
    /\ tpc = [c \in Callers |-> "idle"]
    /\ top = [c \in Callers |-> "none"]

\* No operation on all channels is running.
NoGlobal == gw = "idle"

\* No callback of Dispatch is in its send.
NoCallback == sending = << >>

\* No retrieval is running.
NoLoad ==
    /\ lpc = "done"
    /\ argsKey = ""
    /\ resErr = FALSE
    /\ payCh = FALSE
    /\ mk = 0
    /\ remain = 0
    /\ omg = FALSE
    /\ index = "none"
    /\ setRefErr = "nil"
    /\ results = << >>
    /\ consumer = "closed"
    /\ received = << >>

-----------------------------------------------------------------------------
(***************************************************************************)
(* Replication: the authorization set.                                     *)
(***************************************************************************)

\* A mutation of AuthorizePull: the set of the cid is replaced, not extended.
AuthorizePullReplaces(pl, k, p) ==
    [c \in DOMAIN pl \cup {k} |-> IF c = k THEN {p} ELSE pl[c]]

\* A mutation of AuthorizePull: the sets of the other roots are forgotten.
AuthorizePullSingleRoot(pl, k, p) ==
    [c \in {k} |-> IF k \in DOMAIN pl THEN pl[k] \cup {p} ELSE {p}]

\* func (r *Replication) AuthorizePull(k cid.Cid, p peer.ID)
AuthorizePull(pl, k, p) ==
    IF k \in DOMAIN pl
        THEN [pl EXCEPT ![k] = pl[k] \cup {p}]
        ELSE [c \in DOMAIN pl \cup {k} |-> IF c = k THEN {p} ELSE pl[c]]

\* A mutation of ValidatePull: the receiver is not looked up in the set.
ValidatePullAnyReceiver(pl, receiver, voucher, baseCid) ==
    IF baseCid \notin DOMAIN pl THEN "unknown CID" ELSE "ok"

\* func (r *Replication) ValidatePull(receiver, voucher, baseCid, selector)
\* The result is the error text, or "ok" for a nil error.
ValidatePull(pl, receiver, voucher, baseCid) ==
    IF baseCid \notin DOMAIN pl THEN "unknown CID"
    ELSE IF receiver \notin pl[baseCid] THEN "not authorized"
    ELSE "ok"

\* The loop "for _, p := range providers { r.AuthorizePull(req.PayloadCID, p) }"
RECURSIVE AuthorizeAll(_, _, _)
AuthorizeAll(pl, k, ps) ==
    IF ps = {} THEN pl
    ELSE LET p == CHOOSE x \in ps : TRUE
         IN  AuthorizeAll(AuthorizePull(pl, k, p), k, ps \ {p})

-----------------------------------------------------------------------------
(***************************************************************************)
(* PeerMgr.Peers(n, regions, exclude): the results it may return, up to n  *)
(* peers whose regions intersect the given ones and that are not excluded. *)
(***************************************************************************)
Matching(regions) == {p \in PeerIDs : PeerRegions(p) \cap regions # {}}

Min(a, b) == IF a < b THEN a ELSE b

\* A mutation of Peers: the exclude map is ignored.
PeersIgnoringExclude(num, regions, exclude) ==
    LET eligible == Matching(regions)
    IN  {S \in SUBSET eligible : Cardinality(S) = Min(num, Cardinality(eligible))}

Peers(num, regions, exclude) ==
    LET eligible == Matching(regions) \ exclude
    IN  {S \in SUBSET eligible : Cardinality(S) = Min(num, Cardinality(eligible))}


-----------------------------------------------------------------------------
(***************************************************************************)
(* Package payments: fundsReq and mergedFundsReq.                          *)
(*                                                                         *)
(* One goroutine owns the merge: it builds it from the queued requests     *)
(* (newMergedFundsReq), computes the value of the message (sum) and, when  *)
(* the message completed, resolves the promises (onComplete).  The caller  *)
(* of each request waits on its promise or on its context; when the        *)
(* context is cancelled it calls cancel().  Every access to a fundsReq is  *)
(* one step: each takes and releases the request's lock lk.                *)
(***************************************************************************)
ReqIDs == 1 .. NumReqs

\* fundsReq.amt of the queued requests.
Amt(r) ==
    CASE r = 1 -> 5
      [] r = 2 -> 7
      [] r = 3 -> 3
      [] OTHER -> 2

RECURSIVE SumAmt(_)
SumAmt(S) ==
    IF S = {} THEN 0
    ELSE LET r == CHOOSE x \in S : TRUE IN Amt(r) + SumAmt(S \ {r})

ActiveReqs == {r \in ReqIDs : active[r]}

\* The values of *paychFundsRes: (channel, mcid, err).
NoRes == [channel |-> "", mcid |-> "", err |-> "none"]

FundsResults ==
    { [channel |-> "ch1", mcid |-> "m1", err |-> "nil"],
      [channel |-> "", mcid |-> "", err |-> "failed"] }

\* A caller: waiting in its select, its context cancelled, inside cancel()
\* running checkActive, returned from cancel(), or returned with a result.
FundsCallerStates == {"waiting", "ctxdone", "checking", "cancelled", "got"}

\* The owner: before newMergedFundsReq, in its setMergeParent loop, in its
\* checkActive, in sum, waiting for the message, in onComplete (at isActive,
\* at the select of fundsReq.onComplete), returned.
OwnerStates ==
    {"new", "setparent", "check", "sum", "msg", "isactive", "select", "done"}

\* newFundsReq of every queued request; no merge yet.
InitFunds ==
    /\ active = [r \in ReqIDs |-> TRUE]
    /\ merge = [r \in ReqIDs |-> FALSE]
    /\ cst = [r \in ReqIDs |-> "waiting"]
    /\ cm = [r \in ReqIDs |-> FALSE]
    /\ ci = [r \in ReqIDs |-> 0]
    /\ ctxCancelled = FALSE
    /\ opc = "new"
    /\ oi = 0
    /\ acc = 0
    /\ activeSeen = {}
    /\ res = NoRes
    /\ got = [r \in ReqIDs |-> NoRes]

\* No funds request is queued.
NoFunds ==
    /\ active = [r \in ReqIDs |-> FALSE]
    /\ merge = [r \in ReqIDs |-> FALSE]
    /\ cst = [r \in ReqIDs |-> "cancelled"]
    /\ cm = [r \in ReqIDs |-> FALSE]
    /\ ci = [r \in ReqIDs |-> 0]
    /\ ctxCancelled = FALSE
    /\ opc = "done"
    /\ oi = 0
    /\ acc = 0
    /\ activeSeen = {}
    /\ res = NoRes
    /\ got = [r \in ReqIDs |-> NoRes]

\* ---- the caller of request r

\* The context of the request is cancelled.
CtxDone(r) ==
    /\ cst[r] = "waiting"
    /\ cst' = [cst EXCEPT ![r] = "ctxdone"]
    /\ UNCHANGED <<active, merge, cm, ci, ctxCancelled, opc, oi, acc, activeSeen,
                   res, got>>
    /\ UNCHANGED notFundsVars

\* func (r *fundsReq) cancel(), its locked part:
\* "r.active = false; m := r.merge"
Cancel(r) ==
    /\ cst[r] = "ctxdone"
    /\ active' = [active EXCEPT ![r] = FALSE]
    /\ cm' = [cm EXCEPT ![r] = merge[r]]
    /\ IF merge[r]
          THEN /\ cst' = [cst EXCEPT ![r] = "checking"]
               /\ ci' = [ci EXCEPT ![r] = 1]
          ELSE /\ cst' = [cst EXCEPT ![r] = "cancelled"]
               /\ UNCHANGED ci
    /\ activeSeen' = IF opc = "sum"
                        THEN activeSeen \cup {ActiveReqs \ {r}}
                        ELSE activeSeen
    /\ UNCHANGED <<merge, ctxCancelled, opc, oi, acc, res, got>>
    /\ UNCHANGED notFundsVars

\* A mutation of CancelCheckActive: the context is cancelled as soon as one
\* request is found inactive.
CancelCheckActiveAnyInactive(r) ==
    /\ cst[r] = "checking"
    /\ cst' = [cst EXCEPT ![r] = "cancelled"]
    /\ ci' = [ci EXCEPT ![r] = 0]
    /\ ctxCancelled' = (ctxCancelled \/ ~active[ci[r]])
    /\ UNCHANGED <<active, merge, cm, opc, oi, acc, activeSeen, res, got>>
    /\ UNCHANGED notFundsVars

\* func (m *mergedFundsReq) checkActive(), one iteration of its loop, run by
\* cancel() of request r: return if the request examined is active, cancel
\* the context after the last one.
CancelCheckActive(r) ==
    /\ cst[r] = "checking"
    /\ IF active[ci[r]]
          THEN /\ cst' = [cst EXCEPT ![r] = "cancelled"]
               /\ ci' = [ci EXCEPT ![r] = 0]
               /\ UNCHANGED ctxCancelled
          ELSE IF ci[r] = NumReqs
                  THEN /\ cst' = [cst EXCEPT ![r] = "cancelled"]
                       /\ ci' = [ci EXCEPT ![r] = 0]
                       /\ ctxCancelled' = TRUE
                  ELSE /\ ci' = [ci EXCEPT ![r] = @ + 1]
                       /\ UNCHANGED <<cst, ctxCancelled>>
    /\ UNCHANGED <<active, merge, cm, opc, oi, acc, activeSeen, res, got>>
    /\ UNCHANGED notFundsVars

\* ---- the owner of the merge

\* func newMergedFundsReq(reqs): "m := &mergedFundsReq{ctx, cancel, reqs}"
NewMergedFundsReq ==
    /\ opc = "new"
    /\ opc' = "setparent"
    /\ oi' = 1
    /\ UNCHANGED <<active, merge, cst, cm, ci, ctxCancelled, acc, activeSeen,
                   res, got>>
    /\ UNCHANGED notFundsVars

\* "for _, r := range m.reqs { r.setMergeParent(m) }", one iteration.
SetMergeParent ==
    /\ opc = "setparent"
    /\ merge' = [merge EXCEPT ![oi] = TRUE]
    /\ IF oi = NumReqs
          THEN opc' = "check" /\ oi' = 1
          ELSE opc' = opc /\ oi' = oi + 1
    /\ UNCHANGED <<active, cst, cm, ci, ctxCancelled, acc, activeSeen, res, got>>
    /\ UNCHANGED notFundsVars

\* The owner goes on to sum().
StartSum ==
    /\ opc' = "sum"
    /\ oi' = 1
    /\ acc' = 0
    /\ activeSeen' = {ActiveReqs}

\* A mutation of newMergedFundsReq: the final m.checkActive() is left out.
NewMergedCheckActiveSkipped ==
    /\ opc = "check"
    /\ StartSum
    /\ UNCHANGED <<active, merge, cst, cm, ci, ctxCancelled, res, got>>
    /\ UNCHANGED notFundsVars

\* The "m.checkActive()" that ends newMergedFundsReq, one iteration.
NewMergedCheckActive ==
    /\ opc = "check"
    /\ IF active[oi]
          THEN StartSum /\ UNCHANGED ctxCancelled
          ELSE IF oi = NumReqs
                  THEN StartSum /\ ctxCancelled' = TRUE
                  ELSE /\ oi' = oi + 1
                       /\ UNCHANGED <<opc, acc, activeSeen, ctxCancelled>>
    /\ UNCHANGED <<active, merge, cst, cm, ci, res, got>>
    /\ UNCHANGED notFundsVars

\* A mutation of sum: the amount is added whether or not the request is
\* active.
SumAddsAll ==
    /\ opc = "sum"
    /\ acc' = acc + Amt(oi)
    /\ IF oi = NumReqs
          THEN opc' = "msg" /\ oi' = 0
          ELSE opc' = opc /\ oi' = oi + 1
    /\ UNCHANGED <<active, merge, cst, cm, ci, ctxCancelled, activeSeen, res,
                   got>>
    /\ UNCHANGED notFundsVars

\* func (m *mergedFundsReq) sum(), one iteration:
\* "if r.isActive() { sum = filecoin.BigAdd(sum, r.amt) }"
Sum ==
    /\ opc = "sum"
    /\ acc' = IF active[oi] THEN acc + Amt(oi) ELSE acc
    /\ IF oi = NumReqs
          THEN opc' = "msg" /\ oi' = 0
          ELSE opc' = opc /\ oi' = oi + 1
    /\ UNCHANGED <<active, merge, cst, cm, ci, ctxCancelled, activeSeen, res,
                   got>>
    /\ UNCHANGED notFundsVars

\* The message completed: the owner calls m.onComplete(res).
MergedOnComplete(r) ==
    /\ opc = "msg"
    /\ res' = r
    /\ opc' = "isactive"
    /\ oi' = 1
    /\ UNCHANGED <<active, merge, cst, cm, ci, ctxCancelled, acc, activeSeen,
                   got>>
    /\ UNCHANGED notFundsVars

\* A mutation of onComplete: the loop ends after the first request that
\* was found active.
OnCompleteStopsAfterFirst ==
    IF oi = NumReqs \/ opc = "select"
        THEN opc' = "done" /\ oi' = 0
        ELSE opc' = "isactive" /\ oi' = oi + 1

\* The owner's loop of onComplete moves to the next request, or returns.
OnCompleteNext ==
    IF oi = NumReqs
        THEN opc' = "done" /\ oi' = 0
        ELSE opc' = "isactive" /\ oi' = oi + 1

\* func (m *mergedFundsReq) onComplete, one iteration: "if r.isActive()"
OnCompleteIsActive ==
    /\ opc = "isactive"
    /\ IF active[oi]
          THEN opc' = "select" /\ oi' = oi
          ELSE OnCompleteNext
    /\ UNCHANGED <<active, merge, cst, cm, ci, ctxCancelled, acc, activeSeen,
                   res, got>>
    /\ UNCHANGED notFundsVars

\* func (r *fundsReq) onComplete(res): "case r.promise <- res", taken with
\* the caller that waits on the promise.
OnCompleteSend ==
    /\ opc = "select"
    /\ cst[oi] = "waiting"
    /\ cst' = [cst EXCEPT ![oi] = "got"]
    /\ got' = [got EXCEPT ![oi] = res]
    /\ OnCompleteNext
    /\ UNCHANGED <<active, merge, cm, ci, ctxCancelled, acc, activeSeen, res>>
    /\ UNCHANGED notFundsVars

\* func (r *fundsReq) onComplete(res): "case <-r.ctx.Done()"
OnCompleteCtxDone ==
    /\ opc = "select"
    /\ cst[oi] \in {"ctxdone", "checking", "cancelled"}
    /\ OnCompleteNext
    /\ UNCHANGED <<active, merge, cst, cm, ci, ctxCancelled, acc, activeSeen,
                   res, got>>
    /\ UNCHANGED notFundsVars

OwnerNext ==
    \/ NewMergedFundsReq
    \/ SetMergeParent
    \/ NewMergedCheckActive
    \/ Sum
    \/ \E r \in FundsResults : MergedOnComplete(r)
    \/ OnCompleteIsActive
    \/ OnCompleteSend
    \/ OnCompleteCtxDone

NextFunds ==
    \/ OwnerNext
    \/ \E r \in ReqIDs : CtxDone(r)
    \/ \E r \in ReqIDs : Cancel(r)
    \/ \E r \in ReqIDs : CancelCheckActive(r)

-----------------------------------------------------------------------------
(***************************************************************************)
(* The messages of a channel: create and addFunds start one waiter per     *)
(* message, the waiter ends in msgWaitComplete, which saves the result and *)
(* fires the msgListeners.                                                 *)
(***************************************************************************)
MsgCids == {"m1", "m2"}

CallbackIDs == 1 .. NumCallbacks

\* The err a waiter ends with.
MsgErrs == {"nil", "failed"}

\* A waiter: not started, waiting for its message, returned from
\* msgWaitComplete.
WaiterStates == {"none", "waiting", "done"}

\* type msgCompleteEvt struct { mcid; err }
msgCompleteEvt(m, e) == [mcid |-> m, err |-> e]

\* newMsgListeners, and no message was pushed.
NoMsgs ==
    /\ waiter = [m \in MsgCids |-> "none"]
    /\ msgResult = [m \in MsgCids |-> "none"]
    /\ subs = {}
    /\ cbCid = [c \in CallbackIDs |-> "none"]
    /\ cbLate = [c \in CallbackIDs |-> FALSE]
    /\ invoked = [c \in CallbackIDs |-> << >>]
    /\ published = {}

\* "go ch.waitForPaychCreateMsg(ci.ChannelID, smsg.Cid())" of create and
\* "go ch.waitForAddFundsMsg(channelInfo.ChannelID, mcid)" of addFunds.
GoWaitForMsg(m) ==
    /\ waiter[m] = "none"
    /\ waiter' = [waiter EXCEPT ![m] = "waiting"]
    /\ UNCHANGED <<msgResult, subs, cbCid, cbLate, invoked, published>>
    /\ UNCHANGED notMsgVars

\* func (ml *msgListeners) onMsgComplete(mcid, cb): ml.ps.Subscribe(fn)
onMsgComplete(c, m) ==
    /\ cbCid[c] = "none"
    /\ cbCid' = [cbCid EXCEPT ![c] = m]
    /\ subs' = subs \cup {c}
    /\ cbLate' = [cbLate EXCEPT ![c] = (waiter[m] = "done")]
    /\ UNCHANGED <<waiter, msgResult, invoked, published>>
    /\ UNCHANGED notMsgVars

\* The pubsub.Unsubscribe that onMsgComplete returned is called.
Unsubscribe(c) ==
    /\ c \in subs
    /\ subs' = subs \ {c}
    /\ UNCHANGED <<waiter, msgResult, cbCid, cbLate, invoked, published>>
    /\ UNCHANGED notMsgVars

\* A mutation of the subscriber function: no comparison of the cids.
subscriberFnAnyCid(c, evt) == Append(invoked[c], evt)

\* The subscriber function onMsgComplete builds around cb:
\* "if mcid.Equals(evt.mcid) { cb(evt.err) }"; the value is invoked[c]
\* after the call.
subscriberFn(c, evt) ==
    IF cbCid[c] = evt.mcid THEN Append(invoked[c], evt) ELSE invoked[c]

\* func (ml *msgListeners) fireMsgComplete(mcid, err): Publish hands the
\* event to every subscriber; the value is invoked after the call.
fireMsgComplete(m, e) ==
    [c \in CallbackIDs |->
        IF c \in subs THEN subscriberFn(c, msgCompleteEvt(m, e))
                      ELSE invoked[c]]

\* The waiter of m ends with err e: func (ch *channel) msgWaitComplete(mcid,
\* err), under ch.lk: SaveMessageResult, then fireMsgComplete.
msgWaitComplete(m, e) ==
    /\ waiter[m] = "waiting"
    /\ waiter' = [waiter EXCEPT ![m] = "done"]
    /\ msgResult' = [msgResult EXCEPT ![m] = e]
    /\ invoked' = fireMsgComplete(m, e)
    /\ published' = published \cup {msgCompleteEvt(m, e)}
    /\ UNCHANGED <<subs, cbCid, cbLate>>
    /\ UNCHANGED notMsgVars

NextMsg ==
    \/ \E m \in MsgCids : GoWaitForMsg(m)
    \/ \E c \in CallbackIDs, m \in MsgCids : onMsgComplete(c, m)
    \/ \E c \in CallbackIDs : Unsubscribe(c)
    \/ \E m \in MsgCids, e \in MsgErrs : msgWaitComplete(m, e)

-----------------------------------------------------------------------------
(***************************************************************************)
(* One channel.  The goroutine that processes the funds queue pushes a     *)
(* create or an add-funds message when none is outstanding; each message   *)
(* gets a waiter goroutine (waitForPaychCreateMsg, waitForAddFundsMsg)     *)
(* that ends in msgWaitComplete.  Every step that takes or releases a lock *)
(* and every store access is one step.                                     *)
(***************************************************************************)

\* The order in which the message cids are produced by mpoolPush.
MsgSeq == <<"m1", "m2">>

\* The amounts of the messages.
FundAmounts == 1 .. MaxAmt

\* type ChannelInfo, its fields that create, addFunds and the waiters use;
\* present is FALSE when the store has no record of the channel.
NoChannelInfo ==
    [present |-> FALSE, Channel |-> "nil", Amount |-> 0, PendingAmount |-> 0,
     CreateMsg |-> "nil", AddFundsMsg |-> "nil"]

\* store.CreateChannel(from, to, createMsgCid, amt): the new record.
CreateChannel(mcid, amt) ==
    [present |-> TRUE, Channel |-> "nil", Amount |-> 0, PendingAmount |-> amt,
     CreateMsg |-> mcid, AddFundsMsg |-> "nil"]

\* decodedReturn.RobustAddress of the receipt of create message m.
RobustAddress(m) ==
    CASE m = "m1" -> "t2m1"
      [] m = "m2" -> "t2m2"
      [] OTHER -> "t2"

\* A mutation of the queue processor: it never finds a message outstanding.
OutstandingIgnored(info) == FALSE

\* The record has a message that was not confirmed.
Outstanding(info) == info.CreateMsg # "nil" \/ info.AddFundsMsg # "nil"

\* The queue processor: idle, in ch.lk.Lock() (before chanLock.Lock, before
\* globalLock.RLock), processing the queue, addFunds between the read and
\* the write of mutateChannelInfo, in ch.lk.Unlock() (before RUnlock,
\* before chanLock.Unlock).
CallerStates ==
    {"idle", "lock", "rlock", "process", "af_write", "runlock", "unlock"}

\* A waiter: not started; in StateWaitMsg; in wait...Msg: in ch.lk.Lock(),
\* at RemoveChannel or at the read of mutateChannelInfo, at its write, in
\* ch.lk.Unlock(); in msgWaitComplete: in ch.lk.Lock(), at
\* SaveMessageResult, at fireMsgComplete, in ch.lk.Unlock(); returned.
WaiterPcs ==
    {"none", "wait", "w_lock", "w_rlock", "w_op", "w_write", "w_runlock",
     "w_unlock", "c_lock", "c_rlock", "c_save", "c_fire", "c_runlock",
     "c_unlock",
     "done"}

\* What StateWaitMsg and the decoding of the receipt give: an error of
\* StateWaitMsg, a non-zero exit code, a return that does not decode, success.
WaitOutcomes == {"error", "exit", "decode", "ok"}

\* A mutation of wait...Msg: the error of StateWaitMsg is dropped.
WaitErrDropped(o) ==
    CASE o = "exit" -> "exit code"
      [] o = "decode" -> "decode failed"
      [] OTHER -> "nil"

\* The err of wait...Msg for each outcome.
WaitErr(o) ==
    CASE o = "error" -> "wait msg failed"
      [] o = "exit" -> "exit code"
      [] o = "decode" -> "decode failed"
      [] OTHER -> "nil"

\* An operation of another channel, whose multiLock shares the global lock:
\* idle, holding its own chanLock, holding the global read lock too, having
\* released the global read lock.
OtherStates == {"idle", "chan", "locked", "runlocked"}

\* An operation on all channels (add or remove a channel): idle, in
\* globalLock.Lock() waiting for the readers to leave, holding the lock.
WriterStates == {"idle", "waiting", "writing"}

\* globalLock.RLock() returns: a reader is admitted when no writer holds the
\* lock or waits for it.
RLockAdmits == gw = "idle"

\* A channel with an empty queue and no record in the store.
NewChannel ==
    /\ chanInfo = NoChannelInfo
    /\ chanLock = "free"
    /\ readers = {}
    /\ cpc = "idle"
    /\ clocal = NoChannelInfo
    /\ camt = 0
    /\ queue = 0
    /\ nmsg = 0
    /\ kind = [m \in MsgCids |-> "none"]
    /\ wpc = [m \in MsgCids |-> "none"]
    /\ wout = [m \in MsgCids |-> "none"]
    /\ werr = [m \in MsgCids |-> "none"]
    /\ wlocal = [m \in MsgCids |-> NoChannelInfo]
    /\ wpre = [m \in MsgCids |-> NoChannelInfo]
    /\ xpc = "idle"

\* No channel.
NoChan == NewChannel

callerVars == <<cpc, clocal, camt, queue, nmsg>>

waiterVars == <<kind, wpc, wout, werr, wlocal, wpre>>

\* The msgListeners and the saved message results are left alone.
chanMsgFrame == <<msgResult, subs, cbCid, cbLate, invoked, published>>

\* The cid of the next message mpoolPush signs.
NextMcid == MsgSeq[nmsg + 1]

\* ---- the queue processor

\* GetOrCreateChannel: the request is put on ch.fundsReqQueue.
GetOrCreateChannel ==
    /\ cpc = "idle"
    /\ queue < MaxQueued
    /\ nmsg < Len(MsgSeq)
    /\ queue' = queue + 1
    /\ cpc' = "lock"
    /\ UNCHANGED <<chanInfo, chanLock, readers, clocal, camt, nmsg, xpc>>
    /\ UNCHANGED <<waiterVars, msgVars, notChanVars>>

\* func (l *multiLock) Lock(): "l.chanLock.Lock()"
CallerLockChan ==
    /\ cpc = "lock"
    /\ chanLock = "free"
    /\ chanLock' = "caller"
    /\ cpc' = "rlock"
    /\ UNCHANGED <<chanInfo, readers, clocal, camt, queue, nmsg, xpc>>
    /\ UNCHANGED <<waiterVars, msgVars, notChanVars>>

\* func (l *multiLock) Lock(): "l.globalLock.RLock()"
CallerRLock ==
    /\ cpc = "rlock"
    /\ RLockAdmits
    /\ readers' = readers \cup {"caller"}
    /\ cpc' = "process"
    /\ UNCHANGED <<chanInfo, chanLock, clocal, camt, queue, nmsg, xpc>>
    /\ UNCHANGED <<waiterVars, msgVars, notChanVars>>

\* The head of the queue has an outstanding message: nothing is sent.
ProcessQueueWaits ==
    /\ cpc = "process"
    /\ Outstanding(chanInfo)
    /\ cpc' = "runlock"
    /\ UNCHANGED <<chanInfo, chanLock, readers, clocal, camt, queue, nmsg, xpc>>
    /\ UNCHANGED <<waiterVars, msgVars, notChanVars>>

\* The waiter of a new message of kind k is started, with "go".
GoWaiter(m, k, info) ==
    /\ kind' = [kind EXCEPT ![m] = k]
    /\ wpc' = [wpc EXCEPT ![m] = "wait"]
    /\ wpre' = [wpre EXCEPT ![m] = info]
    /\ waiter' = [waiter EXCEPT ![m] = "waiting"]
    /\ UNCHANGED <<wout, werr, wlocal>>

\* func (ch *channel) create(ctx, amt), for the requests drained from the
\* queue: mpoolPush (pushed is FALSE when it fails), store.CreateChannel
\* (stored is FALSE when it fails: create returns the error),
\* "go ch.waitForPaychCreateMsg".
Create(amt, pushed, stored) ==
    /\ cpc = "process"
    /\ ~Outstanding(chanInfo)
    /\ ~chanInfo.present
    /\ queue' = 0
    /\ cpc' = "runlock"
    /\ IF pushed /\ stored
          THEN /\ chanInfo' = CreateChannel(NextMcid, amt)
               /\ GoWaiter(NextMcid, "create", CreateChannel(NextMcid, amt))
               /\ nmsg' = nmsg + 1
          ELSE /\ nmsg' = IF pushed THEN nmsg + 1 ELSE nmsg
               /\ UNCHANGED <<chanInfo, waiterVars, waiter>>
    /\ UNCHANGED <<chanLock, readers, clocal, camt, xpc>>
    /\ UNCHANGED <<chanMsgFrame, notChanVars>>

\* func (ch *channel) addFunds(ctx, channelInfo, amt), up to the read of
\* mutateChannelInfo: mpoolPush (pushed is FALSE when it fails),
\* "channelInfo, err := ch.store.ByChannelID(channelID)".
AddFundsRead(amt, pushed) ==
    /\ cpc = "process"
    /\ ~Outstanding(chanInfo)
    /\ chanInfo.present
    /\ queue' = 0
    /\ IF pushed
          THEN /\ clocal' = chanInfo
               /\ camt' = amt
               /\ cpc' = "af_write"
          ELSE /\ cpc' = "runlock"
               /\ UNCHANGED <<clocal, camt>>
    /\ UNCHANGED <<chanInfo, chanLock, readers, nmsg, xpc>>
    /\ UNCHANGED <<waiterVars, msgVars, notChanVars>>

\* addFunds' mutation: "ci.PendingAmount = amt; ci.AddFundsMsg = &mcid"
AddFundsMutate(info, amt, mcid) ==
    [info EXCEPT !.PendingAmount = amt, !.AddFundsMsg = mcid]

\* addFunds, from the write of mutateChannelInfo on: putChannelInfo,
\* SaveNewMessage, "go ch.waitForAddFundsMsg".
AddFundsWrite ==
    /\ cpc = "af_write"
    /\ chanInfo' = AddFundsMutate(clocal, camt, NextMcid)
    /\ GoWaiter(NextMcid, "addfunds", AddFundsMutate(clocal, camt, NextMcid))
    /\ nmsg' = nmsg + 1
    /\ cpc' = "runlock"
    /\ UNCHANGED <<chanLock, readers, clocal, camt, queue, xpc>>
    /\ UNCHANGED <<chanMsgFrame, notChanVars>>

\* A mutation of multiLock.Unlock: chanLock is released first.
CallerUnlocksChanFirst ==
    /\ cpc = "runlock"
    /\ chanLock' = "free"
    /\ cpc' = "unlock"
    /\ UNCHANGED <<chanInfo, readers, clocal, camt, queue, nmsg, xpc>>
    /\ UNCHANGED <<waiterVars, msgVars, notChanVars>>

\* A mutation of CallerRUnlock: the read lock is kept.
CallerKeepsReadLock ==
    /\ cpc = "runlock"
    /\ cpc' = "unlock"
    /\ UNCHANGED <<chanInfo, chanLock, readers, clocal, camt, queue, nmsg, xpc>>
    /\ UNCHANGED <<waiterVars, msgVars, notChanVars>>

\* func (l *multiLock) Unlock(): "l.globalLock.RUnlock()"
CallerRUnlock ==
    /\ cpc = "runlock"
    /\ readers' = readers \ {"caller"}
    /\ cpc' = "unlock"
    /\ UNCHANGED <<chanInfo, chanLock, clocal, camt, queue, nmsg, xpc>>
    /\ UNCHANGED <<waiterVars, msgVars, notChanVars>>

\* func (l *multiLock) Unlock(): "l.chanLock.Unlock()"
CallerUnlock ==
    /\ cpc = "unlock"
    /\ chanLock' = "free"
    /\ cpc' = "idle"
    /\ UNCHANGED <<chanInfo, readers, clocal, camt, queue, nmsg, xpc>>
    /\ UNCHANGED <<waiterVars, msgVars, notChanVars>>

\* ---- an operation of another channel: Lock() and Unlock() of its own
\* ---- multiLock, which has its own chanLock and the same globalLock

OtherLockChan ==
    /\ xpc = "idle"
    /\ xpc' = "chan"
    /\ UNCHANGED <<chanInfo, chanLock, readers, callerVars>>
    /\ UNCHANGED <<waiterVars, msgVars, notChanVars>>

OtherRLock ==
    /\ xpc = "chan"
    /\ RLockAdmits
    /\ readers' = readers \cup {"other"}
    /\ xpc' = "locked"
    /\ UNCHANGED <<chanInfo, chanLock, callerVars>>
    /\ UNCHANGED <<waiterVars, msgVars, notChanVars>>

OtherRUnlock ==
    /\ xpc = "locked"
    /\ readers' = readers \ {"other"}
    /\ xpc' = "runlocked"
    /\ UNCHANGED <<chanInfo, chanLock, callerVars>>
    /\ UNCHANGED <<waiterVars, msgVars, notChanVars>>

OtherUnlock ==
    /\ xpc = "runlocked"
    /\ xpc' = "idle"
    /\ UNCHANGED <<chanInfo, chanLock, readers, callerVars>>
    /\ UNCHANGED <<waiterVars, msgVars, notChanVars>>

\* ---- the waiter of message m

\* A mutation of wait...Msg: no ch.lk.Lock() before the store is accessed.
WaitNextNoLock(o) ==
    IF o \in {"error", "decode"} THEN "c_lock" ELSE "w_op"

\* Where wait...Msg goes after StateWaitMsg and the decoding: it returns
\* the error, or it takes ch.lk.
WaitNext(o) ==
    IF o \in {"error", "decode"} THEN "c_lock" ELSE "w_lock"

\* "mwait, err := ch.api.StateWaitMsg(ch.ctx, mcid, uint64(5))", the test of
\* the exit code and, for a create message, the decoding of the return.
StateWaitMsg(m, o) ==
    /\ wpc[m] = "wait"
    /\ kind[m] = "addfunds" => o # "decode"
    /\ wout' = [wout EXCEPT ![m] = o]
    /\ werr' = [werr EXCEPT ![m] = WaitErr(o)]
    /\ wpc' = [wpc EXCEPT ![m] = WaitNext(o)]
    /\ UNCHANGED <<chanInfo, chanLock, readers, callerVars, xpc>>
    /\ UNCHANGED <<kind, wlocal, wpre, msgVars, notChanVars>>

\* func (l *multiLock) Lock(): "l.chanLock.Lock()"
WaiterLockChan(m) ==
    /\ wpc[m] \in {"w_lock", "c_lock"}
    /\ chanLock = "free"
    /\ chanLock' = m
    /\ wpc' = [wpc EXCEPT ![m] = IF @ = "w_lock" THEN "w_rlock" ELSE "c_rlock"]
    /\ UNCHANGED <<chanInfo, readers, callerVars, xpc>>
    /\ UNCHANGED <<kind, wout, werr, wlocal, wpre, msgVars, notChanVars>>

\* func (l *multiLock) Lock(): "l.globalLock.RLock()"
WaiterRLock(m) ==
    /\ wpc[m] \in {"w_rlock", "c_rlock"}
    /\ RLockAdmits
    /\ readers' = readers \cup {m}
    /\ wpc' = [wpc EXCEPT ![m] = IF @ = "w_rlock" THEN "w_op" ELSE "c_save"]
    /\ UNCHANGED <<chanInfo, chanLock, callerVars, xpc>>
    /\ UNCHANGED <<kind, wout, werr, wlocal, wpre, msgVars, notChanVars>>

\* A mutation of waitPaychCreateMsg, non-zero exit code: the record is kept.
WaiterKeepsChannel(m) ==
    /\ wpc[m] = "w_op"
    /\ kind[m] = "create" /\ wout[m] = "exit"
    /\ wpc' = [wpc EXCEPT ![m] = "w_runlock"]
    /\ UNCHANGED <<chanInfo, chanLock, readers, callerVars, xpc>>
    /\ UNCHANGED <<kind, wout, werr, wlocal, wpre, msgVars, notChanVars>>

\* waitPaychCreateMsg, non-zero exit code: store.RemoveChannel(channelID)
WaiterRemoveChannel(m) ==
    /\ wpc[m] = "w_op"
    /\ kind[m] = "create" /\ wout[m] = "exit"
    /\ chanInfo' = NoChannelInfo
    /\ wpc' = [wpc EXCEPT ![m] = "w_runlock"]
    /\ UNCHANGED <<chanLock, readers, callerVars, xpc>>
    /\ UNCHANGED <<kind, wout, werr, wlocal, wpre, msgVars, notChanVars>>

\* mutateChannelInfo: "channelInfo, err := ch.store.ByChannelID(channelID)";
\* it returns when the store has no such record.
WaiterMutateRead(m) ==
    /\ wpc[m] = "w_op"
    /\ ~(kind[m] = "create" /\ wout[m] = "exit")
    /\ IF chanInfo.present
          THEN /\ wlocal' = [wlocal EXCEPT ![m] = chanInfo]
               /\ wpc' = [wpc EXCEPT ![m] = "w_write"]
          ELSE /\ wpc' = [wpc EXCEPT ![m] = "w_runlock"]
               /\ UNCHANGED wlocal
    /\ UNCHANGED <<chanInfo, chanLock, readers, callerVars, xpc>>
    /\ UNCHANGED <<kind, wout, werr, wpre, msgVars, notChanVars>>

\* A mutation of waitPaychCreateMsg: PendingAmount is not moved to Amount.
CreateConfirmedKeepsPending(info, m) ==
    [info EXCEPT !.Channel = RobustAddress(m), !.CreateMsg = "nil"]

\* The mutation of waitPaychCreateMsg: the robust address is stored.
CreateConfirmed(info, m) ==
    [info EXCEPT !.Channel = RobustAddress(m),
                 !.Amount = info.PendingAmount,
                 !.PendingAmount = 0,
                 !.CreateMsg = "nil"]

\* A mutation of waitAddFundsMsg, non-zero exit code: the pending amount is
\* added all the same.
AddFundsFailedAddsPending(info) ==
    [info EXCEPT !.Amount = info.Amount + info.PendingAmount,
                 !.PendingAmount = 0,
                 !.AddFundsMsg = "nil"]

\* The mutation of waitAddFundsMsg when the exit code is not zero.
AddFundsFailed(info) ==
    [info EXCEPT !.PendingAmount = 0, !.AddFundsMsg = "nil"]

\* A mutation of waitAddFundsMsg: Amount is replaced by PendingAmount.
AddFundsConfirmedReplaces(info) ==
    [info EXCEPT !.Amount = info.PendingAmount,
                 !.PendingAmount = 0,
                 !.AddFundsMsg = "nil"]

\* The mutation of waitAddFundsMsg: the updated amount is stored.
AddFundsConfirmed(info) ==
    [info EXCEPT !.Amount = info.Amount + info.PendingAmount,
                 !.PendingAmount = 0,
                 !.AddFundsMsg = "nil"]

\* mutateChannelInfo: "mutate(channelInfo)" and
\* "ch.store.putChannelInfo(channelInfo)"
WaiterMutateWrite(m) ==
    /\ wpc[m] = "w_write"
    /\ chanInfo' =
          IF kind[m] = "create" THEN CreateConfirmed(wlocal[m], m)
          ELSE IF wout[m] = "exit" THEN AddFundsFailed(wlocal[m])
          ELSE AddFundsConfirmed(wlocal[m])
    /\ wpc' = [wpc EXCEPT ![m] = "w_runlock"]
    /\ UNCHANGED <<chanLock, readers, callerVars, xpc>>
    /\ UNCHANGED <<kind, wout, werr, wlocal, wpre, msgVars, notChanVars>>

\* func (l *multiLock) Unlock(): "l.globalLock.RUnlock()"
WaiterRUnlock(m) ==
    /\ wpc[m] \in {"w_runlock", "c_runlock"}
    /\ readers' = readers \ {m}
    /\ wpc' = [wpc EXCEPT
                 ![m] = IF @ = "w_runlock" THEN "w_unlock" ELSE "c_unlock"]
    /\ UNCHANGED <<chanInfo, chanLock, callerVars, xpc>>
    /\ UNCHANGED <<kind, wout, werr, wlocal, wpre, msgVars, notChanVars>>

\* func (l *multiLock) Unlock(): "l.chanLock.Unlock()"; after the one of
\* wait...Msg the waiter enters msgWaitComplete, after the one of
\* msgWaitComplete it returns.
WaiterUnlock(m) ==
    /\ wpc[m] \in {"w_unlock", "c_unlock"}
    /\ chanLock' = "free"
    /\ wpc' = [wpc EXCEPT ![m] = IF @ = "w_unlock" THEN "c_lock" ELSE "done"]
    /\ waiter' = [waiter EXCEPT
                    ![m] = IF wpc[m] = "c_unlock" THEN "done" ELSE @]
    /\ UNCHANGED <<chanInfo, readers, callerVars, xpc>>
    /\ UNCHANGED <<kind, wout, werr, wlocal, wpre, chanMsgFrame, notChanVars>>

\* A mutation of WaiterSaveMessageResult: the result is not saved.
WaiterSkipsSave(m) ==
    /\ wpc[m] = "c_save"
    /\ wpc' = [wpc EXCEPT ![m] = "c_fire"]
    /\ UNCHANGED <<chanInfo, chanLock, readers, callerVars, xpc>>
    /\ UNCHANGED <<kind, wout, werr, wlocal, wpre, msgVars, notChanVars>>

\* func (ch *channel) msgWaitComplete(mcid, err), under ch.lk:
\* "dserr := ch.store.SaveMessageResult(mcid, err)"
WaiterSaveMessageResult(m) ==
    /\ wpc[m] = "c_save"
    /\ msgResult' = [msgResult EXCEPT ![m] = werr[m]]
    /\ wpc' = [wpc EXCEPT ![m] = "c_fire"]
    /\ UNCHANGED <<chanInfo, chanLock, readers, callerVars, xpc>>
    /\ UNCHANGED <<kind, wout, werr, wlocal, wpre, waiter, subs, cbCid, cbLate,
                   invoked, published>>
    /\ UNCHANGED notChanVars

\* func (ch *channel) msgWaitComplete(mcid, err), under ch.lk:
\* "ch.msgListeners.fireMsgComplete(mcid, err)"
WaiterMsgWaitComplete(m) ==
    /\ wpc[m] = "c_fire"
    /\ invoked' = fireMsgComplete(m, werr[m])
    /\ published' = published \cup {msgCompleteEvt(m, werr[m])}
    /\ wpc' = [wpc EXCEPT ![m] = "c_runlock"]
    /\ UNCHANGED <<chanInfo, chanLock, readers, callerVars, xpc>>
    /\ UNCHANGED <<kind, wout, werr, wlocal, wpre, waiter, msgResult, subs, cbCid,
                   cbLate>>
    /\ UNCHANGED notChanVars

NextChan ==
    \/ GetOrCreateChannel
    \/ CallerLockChan
    \/ CallerRLock
    \/ ProcessQueueWaits
    \/ \E a \in FundAmounts, pushed \in BOOLEAN, stored \in BOOLEAN :
          Create(a, pushed, stored)
    \/ \E a \in FundAmounts, pushed \in BOOLEAN : AddFundsRead(a, pushed)
    \/ AddFundsWrite
    \/ CallerRUnlock
    \/ CallerUnlock
    \/ OtherLockChan
    \/ OtherRLock
    \/ OtherRUnlock
    \/ OtherUnlock
    \/ \E m \in MsgCids, o \in WaitOutcomes : StateWaitMsg(m, o)
    \/ \E m \in MsgCids : WaiterLockChan(m)
    \/ \E m \in MsgCids : WaiterRLock(m)
    \/ \E m \in MsgCids : WaiterRemoveChannel(m)
    \/ \E m \in MsgCids : WaiterMutateRead(m)
    \/ \E m \in MsgCids : WaiterMutateWrite(m)
    \/ \E m \in MsgCids : WaiterRUnlock(m)
    \/ \E m \in MsgCids : WaiterUnlock(m)
    \/ \E m \in MsgCids : WaiterSaveMessageResult(m)
    \/ \E m \in MsgCids : WaiterMsgWaitComplete(m)

-----------------------------------------------------------------------------
(***************************************************************************)
(* Dispatch.                                                               *)
(***************************************************************************)

\* NewReplication: "pulls: make(map[cid.Cid]*peer.Set)"
NewReplication ==
    /\ pulls = << >>
    /\ authCalls = {}
    /\ vcall = NoCall

InitDispatch ==
    /\ NewReplication
    /\ NoFunds
    /\ NoMsgs
    /\ NoChan
    /\ NoSend
    /\ NoLoad
    /\ NoNode
    /\ NoCallback
    /\ NoGlobal
    /\ rgs \in NodeRegionSets
    /\ req = "cidA"
    /\ optRF \in 1 .. MaxRF
    /\ optAttemps \in 0 .. MaxBackoffAttemps
    /\ dpc = "requests"
    /\ rcv = {}
    /\ attempt = 0
    /\ n = 0
    /\ resChan = << >>
    /\ out = << >>
    /\ outClosed = FALSE
    /\ subscribed = TRUE
    /\ recs = << >>
    /\ delivered = {}
    /\ ts = [p \in PeerIDs |-> "none"]
    /\ evts = 0
    /\ rounds = << >>
    /\ completedEvts = << >>

\* The deferred func of the dispatcher goroutine: unsub(); close(out).
DispatchReturn ==
    /\ dpc' = "done"
    /\ subscribed' = FALSE
    /\ outClosed' = TRUE

\* A mutation of GiveUp: one more round is allowed.
GiveUpOneRoundLater(a, max) == a > max + 1

\* "if int(b.Attempt()) > opt.BackoffAttemps"
GiveUp(a, max) == a > max

\* "if int(b.Attempt()) > opt.BackoffAttemps { return }"
DispatchGiveUp ==
    /\ dpc = "requests"
    /\ GiveUp(attempt, optAttemps)
    /\ DispatchReturn
    /\ UNCHANGED notDispatchVars
    /\ UNCHANGED <<pulls, authCalls, rgs, req, optRF, optAttemps, rcv, attempt, n,
                   resChan, out, recs, delivered, ts, evts,
                   rounds, completedEvts>>

\* One round: select the providers, authorize them, send the requests
\* (sendAllRequests: each stream may fail to open or to write), arm the timer.
DispatchRound ==
    /\ dpc = "requests"
    /\ ~GiveUp(attempt, optAttemps)
    /\ \E providers \in Peers(optRF - n, rgs, rcv) :
       \E written \in SUBSET providers :
          /\ pulls' = AuthorizeAll(pulls, req, providers)
          /\ authCalls' = authCalls \cup {<<req, p>> : p \in providers}
          /\ rcv' = rcv \cup providers
          /\ delivered' = delivered \cup written
          /\ rounds' = Append(rounds, [asked |-> optRF - n,
                                       providers |-> providers,
                                       written |-> written])
    /\ attempt' = attempt + 1
    /\ dpc' = "wait"
    /\ UNCHANGED notDispatchVars
    /\ UNCHANGED <<rgs, req, optRF, optAttemps, n, resChan, out, outClosed,
                   subscribed, recs, ts, evts,
                   completedEvts>>

\* "case <-timer.C: continue requests"
DispatchTimer ==
    /\ dpc = "wait"
    /\ dpc' = "requests"
    /\ UNCHANGED notDispatchVars
    /\ UNCHANGED <<pulls, authCalls, rgs, req, optRF, optAttemps, rcv, attempt, n,
                   resChan, out, outClosed, subscribed, recs, delivered, ts,
                   evts,
                   rounds, completedEvts>>

\* "case r := <-resChan: out <- r; n++; if n == opt.RF { return }"
DispatchConfirm ==
    /\ dpc = "wait"
    /\ resChan # << >>
    /\ Len(out) < optRF
    /\ out' = Append(out, Head(resChan))
    /\ resChan' = Tail(resChan)
    /\ n' = n + 1
    /\ IF n + 1 = optRF
          THEN DispatchReturn
          ELSE UNCHANGED <<dpc, subscribed, outClosed>>
    /\ UNCHANGED notDispatchVars
    /\ UNCHANGED <<pulls, authCalls, rgs, req, optRF, optAttemps, rcv, attempt, recs,
                   delivered, ts, evts,
                   rounds, completedEvts>>

\* The caller: "for rec := range res { recs = append(recs, rec) }"
CallerReceive ==
    /\ out # << >>
    /\ recs' = Append(recs, Head(out))
    /\ out' = Tail(out)
    /\ UNCHANGED notDispatchVars
    /\ UNCHANGED <<pulls, authCalls, rgs, req, optRF, optAttemps, dpc, rcv, attempt, n,
                   resChan, outClosed, subscribed, delivered, ts, evts,
                   rounds, completedEvts>>

(***************************************************************************)
(* The peers and the transport.                                            *)
(***************************************************************************)

\* A peer opens a pull channel for req.PayloadCID with a Request voucher:
\* after handleRequest read a Request, or on its own initiative.  The
\* transport asks ValidatePull.
OpenPull(p) ==
    /\ ts[p] = "none"
    /\ ts' = [ts EXCEPT ![p] =
                IF ValidatePull(pulls, p, Request(req), req) = "ok"
                    THEN "ongoing" ELSE "rejected"]
    /\ UNCHANGED notDispatchVars
    /\ UNCHANGED <<pulls, authCalls, rgs, req, optRF, optAttemps, dpc, rcv, attempt, n,
                   resChan, out, outClosed, subscribed, recs, delivered, evts,
                   rounds, completedEvts>>

\* A mutation of Subscriber: the record overtakes the records in resChan.
SubscriberOvertakes(p, root) ==
    IF subscribed /\ root = req
        THEN /\ Len(resChan) < optRF
             /\ resChan' = <<PRecord(p, root)>> \o resChan
        ELSE UNCHANGED resChan

\* The subscriber of Dispatch, called with a channel state whose status is
\* Completed, whose base cid is root and whose recipient is p.
Subscriber(p, root) ==
    IF subscribed /\ root = req
        THEN /\ Len(resChan) < optRF
             /\ resChan' = Append(resChan, PRecord(p, root))
        ELSE UNCHANGED resChan

\* The transport reports the event that completes p's transfer: the channel
\* state it passes to the subscribers has status Completed.
CompletedEvent(p) ==
    /\ ts[p] = "ongoing"
    /\ ts' = [ts EXCEPT ![p] = "completed"]
    /\ completedEvts' = Append(completedEvts, p)
    /\ Subscriber(p, req)
    /\ UNCHANGED notDispatchVars
    /\ UNCHANGED <<pulls, authCalls, rgs, req, optRF, optAttemps, dpc, rcv, attempt, n,
                   out, outClosed, subscribed, recs, delivered, evts,
                   rounds>>

\* The transport reports a later event of p's completed transfer: the channel
\* state still has status Completed.
RepeatedEvent(p) ==
    /\ ts[p] = "completed"
    /\ evts < MaxRepeatedEvents
    /\ evts' = evts + 1
    /\ completedEvts' = Append(completedEvts, p)
    /\ Subscriber(p, req)
    /\ UNCHANGED notDispatchVars
    /\ UNCHANGED <<pulls, authCalls, rgs, req, optRF, optAttemps, dpc, rcv, attempt, n,
                   out, outClosed, subscribed, recs, delivered, ts,
                   rounds>>

\* The transfer fails: its events carry a status other than Completed.
ErrorEvent(p) ==
    /\ ts[p] = "ongoing"
    /\ ts' = [ts EXCEPT ![p] = "failed"]
    /\ UNCHANGED notDispatchVars
    /\ UNCHANGED <<pulls, authCalls, rgs, req, optRF, optAttemps, dpc, rcv, attempt, n,
                   resChan, out, outClosed, subscribed, recs, delivered, evts,
                   rounds, completedEvts>>

NextDispatch ==
    \/ DispatchGiveUp
    \/ DispatchRound
    \/ DispatchTimer
    \/ DispatchConfirm
    \/ CallerReceive
    \/ \E p \in PeerIDs : OpenPull(p)
    \/ \E p \in PeerIDs : CompletedEvent(p)
    \/ \E p \in PeerIDs : RepeatedEvent(p)
    \/ \E p \in PeerIDs : ErrorEvent(p)

SpecDispatch == InitDispatch /\ [][NextDispatch]_vars

(***************************************************************************)
(* Dispatch with the subscriber running in the goroutine of the transport  *)
(* that publishes the event: the call of the callback and the completion   *)
(* of its send on resChan are two steps.                                   *)
(***************************************************************************)

\* The subscriber is called with a channel state whose status is Completed,
\* whose base cid is root and whose recipient is p, and reaches
\* "resChan <- PRecord{...}".
SubscriberCalled(p, root) ==
    IF subscribed /\ root = req
        THEN sending' = Append(sending, PRecord(p, root))
        ELSE UNCHANGED sending

\* "resChan <- PRecord{...}" completes: the buffer of resChan has room.
SubscriberSends ==
    /\ sending # << >>
    /\ Len(resChan) < optRF
    /\ resChan' = Append(resChan, Head(sending))
    /\ sending' = Tail(sending)
    /\ UNCHANGED <<vcall, fundsVars, msgVars, chanVars, sendVars, loadVars,
                   nodeVars, globalVars>>
    /\ UNCHANGED <<pulls, authCalls, rgs, req, optRF, optAttemps, dpc, rcv,
                   attempt, n, out, outClosed, subscribed, recs, delivered,
                   ts, evts, rounds, completedEvts>>

\* The transport reports the event that completes p's transfer and calls
\* the subscribers.
CompletedPublished(p) ==
    /\ ts[p] = "ongoing"
    /\ ts' = [ts EXCEPT ![p] = "completed"]
    /\ completedEvts' = Append(completedEvts, p)
    /\ SubscriberCalled(p, req)
    /\ UNCHANGED <<vcall, fundsVars, msgVars, chanVars, sendVars, loadVars,
                   nodeVars, globalVars>>
    /\ UNCHANGED <<pulls, authCalls, rgs, req, optRF, optAttemps, dpc, rcv,
                   attempt, n, resChan, out, outClosed, subscribed, recs,
                   delivered, evts, rounds>>

\* The transport reports a later event of p's completed transfer.
RepeatedPublished(p) ==
    /\ ts[p] = "completed"
    /\ evts < MaxRepeatedEvents
    /\ evts' = evts + 1
    /\ completedEvts' = Append(completedEvts, p)
    /\ SubscriberCalled(p, req)
    /\ UNCHANGED <<vcall, fundsVars, msgVars, chanVars, sendVars, loadVars,
                   nodeVars, globalVars>>
    /\ UNCHANGED <<pulls, authCalls, rgs, req, optRF, optAttemps, dpc, rcv,
                   attempt, n, resChan, out, outClosed, subscribed, recs,
                   delivered, ts, rounds>>

NextCallback ==
    \/ DispatchGiveUp
    \/ DispatchRound
    \/ DispatchTimer
    \/ DispatchConfirm
    \/ CallerReceive
    \/ \E p \in PeerIDs : OpenPull(p)
    \/ \E p \in PeerIDs : CompletedPublished(p)
    \/ \E p \in PeerIDs : RepeatedPublished(p)
    \/ \E p \in PeerIDs : ErrorEvent(p)
    \/ SubscriberSends

SpecCallback == InitDispatch /\ [][NextCallback]_vars

\* Every record sent on the returned channel so far, in order.
Yielded == recs \o out

\* How many of the records of a sequence name provider p.
RecordsOf(seq, p) == Cardinality({i \in 1 .. Len(seq) : seq[i].Provider = p})

\* No Dispatch call is running.
NoDispatch ==
    /\ rgs = {AsiaRegion}
    /\ req = "cidA"
    /\ optRF = 1
    /\ optAttemps = 0
    /\ dpc = "done"
    /\ rcv = {}
    /\ attempt = 0
    /\ n = 0
    /\ resChan = << >>
    /\ out = << >>
    /\ outClosed = TRUE
    /\ subscribed = FALSE
    /\ recs = << >>
    /\ delivered = {}
    /\ ts = [p \in PeerIDs |-> "none"]
    /\ evts = 0
    /\ rounds = << >>
    /\ completedEvts = << >>

-----------------------------------------------------------------------------
(***************************************************************************)
(* One round of Dispatch statement by statement: the authorize loop, then  *)
(* sendAllRequests; and the peers that handle the Request (handleRequest)  *)
(* and pull.                                                               *)
(***************************************************************************)

SendStates == {"authorize", "open", "write", "close", "done"}

HandlerStates == {"idle", "read", "setref", "open", "done"}

\* The values of providers: the peers of a round in the order of the slice.
ProviderLists ==
    {s \in UNION {[1 .. k -> PeerIDs] : k \in 0 .. NumPeers} :
        \A i, j \in 1 .. Len(s) : i # j => s[i] # s[j]}

\* r.idx.ms.Next(): a store id above the ids in use.
MsNext(id) == id + 1

\* A mutation of DropsRef: the recipient is not compared with the node.
DropsRefAnyRecipient(code, recipient, self) == code = "Error"

\* The subscriber of NewReplication: "if event.Code == datatransfer.Error &&
\* channelState.Recipient() == h.ID()", the events for which it calls DropRef.
DropsRef(code, recipient, self) == code = "Error" /\ recipient = self

\* Index.SetRef(ref) for a root the Index holds a ref of, or not.
IndexSetRef(has) == IF has THEN "ErrRefAlreadyExists" ELSE "nil"

\* What the actions of the round and of the peers leave alone.
notSendVars ==
    <<vcall, fundsVars, msgVars, chanVars, loadVars, nodeVars, callbackVars, globalVars, rgs, req, optRF,
      optAttemps, dpc, attempt, n, resChan, out, outClosed, subscribed, recs,
      evts, rounds, completedEvts, lastEvt>>

handlerVars == <<hpc, refs, storeID, blocks, ts>>

senderVars == <<pulls, authCalls, rcv, delivered, sendPeers, spc, si, streams>>

\* Each peer either holds the content already (ref and blocks) or not.
InitSend ==
    /\ NewReplication
    /\ NoDispatch
    /\ NoFunds
    /\ NoMsgs
    /\ NoChan
    /\ NoLoad
    /\ NoNode
    /\ NoCallback
    /\ NoGlobal
    /\ sendPeers \in ProviderLists
    /\ spc = "authorize"
    /\ si = 1
    /\ streams = [p \in PeerIDs |-> NoStream]
    /\ hpc = [p \in PeerIDs |-> "idle"]
    /\ refs \in [PeerIDs -> BOOLEAN]
    /\ storeID = [p \in PeerIDs |-> IF refs[p] THEN 1 ELSE 0]
    /\ lastEvt = NoEvent
    /\ blocks = refs

\* A mutation of SendAuthorize: the peer is marked but not authorized.
SendMarksOnly ==
    /\ spc = "authorize"
    /\ si <= Len(sendPeers)
    /\ rcv' = rcv \cup {sendPeers[si]}
    /\ si' = si + 1
    /\ UNCHANGED <<pulls, authCalls, delivered, sendPeers, spc, streams>>
    /\ UNCHANGED handlerVars
    /\ UNCHANGED notSendVars

\* "for _, p := range providers { r.AuthorizePull(req.PayloadCID, p);
\*  rcv[p] = true }": one iteration.
SendAuthorize ==
    /\ spc = "authorize"
    /\ si <= Len(sendPeers)
    /\ pulls' = AuthorizePull(pulls, req, sendPeers[si])
    /\ authCalls' = authCalls \cup {<<req, sendPeers[si]>>}
    /\ rcv' = rcv \cup {sendPeers[si]}
    /\ si' = si + 1
    /\ UNCHANGED <<delivered, sendPeers, spc, streams>>
    /\ UNCHANGED handlerVars
    /\ UNCHANGED notSendVars

\* "if len(providers) > 0 { r.sendAllRequests(req, providers) }"
SendAllRequests ==
    /\ spc = "authorize"
    /\ si > Len(sendPeers)
    /\ spc' = IF Len(sendPeers) > 0 THEN "open" ELSE "done"
    /\ si' = 1
    /\ UNCHANGED <<pulls, authCalls, rcv, delivered, sendPeers, streams>>
    /\ UNCHANGED handlerVars
    /\ UNCHANGED notSendVars

\* "stream, err := r.NewRequestStream(p)" with a nil err.
NewRequestStream ==
    /\ spc = "open"
    /\ si <= Len(sendPeers)
    /\ streams' = [streams EXCEPT ![sendPeers[si]].tried = @ + 1,
                                  ![sendPeers[si]].opened = @ + 1]
    /\ spc' = "write"
    /\ UNCHANGED <<pulls, authCalls, rcv, delivered, sendPeers, si>>
    /\ UNCHANGED handlerVars
    /\ UNCHANGED notSendVars

\* "stream, err := r.NewRequestStream(p); if err != nil { continue }"
NewRequestStreamFails ==
    /\ spc = "open"
    /\ si <= Len(sendPeers)
    /\ streams' = [streams EXCEPT ![sendPeers[si]].tried = @ + 1]
    /\ si' = si + 1
    /\ UNCHANGED <<pulls, authCalls, rcv, delivered, sendPeers, spc>>
    /\ UNCHANGED handlerVars
    /\ UNCHANGED notSendVars

\* "err = stream.WriteRequest(req)" with a nil err: the peer gets the Request.
WriteRequest ==
    /\ spc = "write"
    /\ streams' = [streams EXCEPT ![sendPeers[si]].written = @ + 1]
    /\ delivered' = delivered \cup {sendPeers[si]}
    /\ spc' = "close"
    /\ UNCHANGED <<pulls, authCalls, rcv, sendPeers, si>>
    /\ UNCHANGED handlerVars
    /\ UNCHANGED notSendVars

\* A mutation of WriteRequestFails: the loop continues without Close.
WriteRequestFailsNoClose ==
    /\ spc = "write"
    /\ streams' = [streams EXCEPT ![sendPeers[si]].written = @ + 1]
    /\ spc' = "open"
    /\ si' = si + 1
    /\ UNCHANGED <<pulls, authCalls, rcv, delivered, sendPeers>>
    /\ UNCHANGED handlerVars
    /\ UNCHANGED notSendVars

\* "err = stream.WriteRequest(req)" with an err: the Request is lost.
WriteRequestFails ==
    /\ spc = "write"
    /\ streams' = [streams EXCEPT ![sendPeers[si]].written = @ + 1]
    /\ spc' = "close"
    /\ UNCHANGED <<pulls, authCalls, rcv, delivered, sendPeers, si>>
    /\ UNCHANGED handlerVars
    /\ UNCHANGED notSendVars

\* "stream.Close(); if err != nil { continue }" and the end of the iteration.
StreamClose ==
    /\ spc = "close"
    /\ streams' = [streams EXCEPT ![sendPeers[si]].closed = @ + 1]
    /\ spc' = "open"
    /\ si' = si + 1
    /\ UNCHANGED <<pulls, authCalls, rcv, delivered, sendPeers>>
    /\ UNCHANGED handlerVars
    /\ UNCHANGED notSendVars

\* sendAllRequests returns: the range over peers is exhausted.
SendReturn ==
    /\ spc = "open"
    /\ si > Len(sendPeers)
    /\ spc' = "done"
    /\ UNCHANGED <<pulls, authCalls, rcv, delivered, sendPeers, si, streams>>
    /\ UNCHANGED handlerVars
    /\ UNCHANGED notSendVars

\* The stream handler of p is called with the stream the sender opened.
HandleRequest(p) ==
    /\ hpc[p] = "idle"
    /\ streams[p].opened > 0
    /\ hpc' = [hpc EXCEPT ![p] = "read"]
    /\ UNCHANGED <<refs, storeID, blocks, ts>>
    /\ UNCHANGED senderVars
    /\ UNCHANGED notSendVars

\* "req, err := rs.ReadRequest()" with a nil err.
ReadRequest(p) ==
    /\ hpc[p] = "read"
    /\ p \in delivered
    /\ hpc' = [hpc EXCEPT ![p] = "setref"]
    /\ UNCHANGED <<refs, storeID, blocks, ts>>
    /\ UNCHANGED senderVars
    /\ UNCHANGED notSendVars

\* A mutation of ReadRequestFails: the handler goes on without a Request.
ReadRequestErrIgnored(p) ==
    /\ hpc[p] = "read"
    /\ p \notin delivered
    /\ streams[p].closed > 0
    /\ hpc' = [hpc EXCEPT ![p] = "setref"]
    /\ UNCHANGED <<refs, storeID, blocks, ts>>
    /\ UNCHANGED senderVars
    /\ UNCHANGED notSendVars

\* "req, err := rs.ReadRequest(); if err != nil { return }": the stream was
\* closed and carried no Request.
ReadRequestFails(p) ==
    /\ hpc[p] = "read"
    /\ p \notin delivered
    /\ streams[p].closed > 0
    /\ hpc' = [hpc EXCEPT ![p] = "done"]
    /\ UNCHANGED <<refs, storeID, blocks, ts>>
    /\ UNCHANGED senderVars
    /\ UNCHANGED notSendVars

\* "storeID := r.idx.ms.Next(); err = r.idx.SetRef(&DataRef{...});
\*  if err != nil { return }"
SetRef(p) ==
    /\ hpc[p] = "setref"
    /\ IF IndexSetRef(refs[p]) = "nil"
          THEN /\ refs' = [refs EXCEPT ![p] = TRUE]
               /\ storeID' = [storeID EXCEPT ![p] = MsNext(storeID[p])]
               /\ hpc' = [hpc EXCEPT ![p] = "open"]
          ELSE /\ hpc' = [hpc EXCEPT ![p] = "done"]
               /\ UNCHANGED <<refs, storeID>>
    /\ UNCHANGED <<blocks, ts>>
    /\ UNCHANGED senderVars
    /\ UNCHANGED notSendVars

\* "_, err = r.dt.OpenPullDataChannel(...)" with a nil err: the transport of
\* the sender validates the pull (ValidatePull).
OpenPullDataChannel(p) ==
    /\ hpc[p] = "open"
    /\ hpc' = [hpc EXCEPT ![p] = "done"]
    /\ ts' = [ts EXCEPT ![p] =
                IF ValidatePull(pulls, p, Request(req), req) = "ok"
                    THEN "ongoing" ELSE "rejected"]
    /\ UNCHANGED <<refs, storeID, blocks>>
    /\ UNCHANGED senderVars
    /\ UNCHANGED notSendVars

\* "_, err = r.dt.OpenPullDataChannel(...); if err != nil { return }"
OpenPullDataChannelFails(p) ==
    /\ hpc[p] = "open"
    /\ hpc' = [hpc EXCEPT ![p] = "done"]
    /\ UNCHANGED <<refs, storeID, blocks, ts>>
    /\ UNCHANGED senderVars
    /\ UNCHANGED notSendVars

\* The pull of p completes: its store holds the blocks.
PullCompleted(p) ==
    /\ ts[p] = "ongoing"
    /\ ts' = [ts EXCEPT ![p] = "completed"]
    /\ blocks' = [blocks EXCEPT ![p] = TRUE]
    /\ UNCHANGED <<hpc, refs, storeID>>
    /\ UNCHANGED senderVars
    /\ UNCHANGED notSendVars

\* The pull of p fails or was rejected: the subscriber NewReplication
\* registered gets an Error event whose recipient is p,
\* "r.idx.DropRef(channelState.BaseCID())".
PullError(p) ==
    /\ ts[p] \in {"ongoing", "rejected"}
    /\ ts' = [ts EXCEPT ![p] = "failed"]
    /\ refs' = [refs EXCEPT ![p] = @ /\ ~DropsRef("Error", p, p)]
    /\ storeID' = [storeID EXCEPT ![p] = IF DropsRef("Error", p, p) THEN 0 ELSE @]
    /\ UNCHANGED <<hpc, blocks>>
    /\ UNCHANGED senderVars
    /\ UNCHANGED notSendVars

NextSend ==
    \/ SendAuthorize
    \/ SendAllRequests
    \/ NewRequestStream
    \/ NewRequestStreamFails
    \/ WriteRequest
    \/ WriteRequestFails
    \/ StreamClose
    \/ SendReturn
    \/ \E p \in PeerIDs : HandleRequest(p)
    \/ \E p \in PeerIDs : ReadRequest(p)
    \/ \E p \in PeerIDs : ReadRequestFails(p)
    \/ \E p \in PeerIDs : SetRef(p)
    \/ \E p \in PeerIDs : OpenPullDataChannel(p)
    \/ \E p \in PeerIDs : OpenPullDataChannelFails(p)
    \/ \E p \in PeerIDs : PullCompleted(p)
    \/ \E p \in PeerIDs : PullError(p)

SpecSend == InitSend /\ [][NextSend]_vars

-----------------------------------------------------------------------------
(***************************************************************************)
(* The subscriber NewReplication registers, called by the transport of a   *)
(* node with the events of any transfer.                                   *)
(***************************************************************************)

EventCodes == {"Open", "Accept", "DataReceived", "Error", "Complete"}

InitEvents ==
    /\ NewReplication
    /\ NoDispatch
    /\ NoFunds
    /\ NoMsgs
    /\ NoChan
    /\ NoLoad
    /\ NoNode
    /\ NoCallback
    /\ NoGlobal
    /\ sendPeers = << >>
    /\ spc = "done"
    /\ si = 1
    /\ streams = [p \in PeerIDs |-> NoStream]
    /\ hpc = [p \in PeerIDs |-> "idle"]
    /\ refs \in [PeerIDs -> BOOLEAN]
    /\ storeID = [p \in PeerIDs |-> IF refs[p] THEN 1 ELSE 0]
    /\ lastEvt = NoEvent
    /\ blocks = refs

\* The transport of node calls the subscriber with an event of a transfer
\* whose recipient and base cid are the given ones.
TransportEvent(node, code, recipient, baseCid) ==
    /\ lastEvt' = [node |-> node, code |-> code, recipient |-> recipient,
               baseCid |-> baseCid]
    /\ IF DropsRef(code, recipient, node) /\ baseCid = req
          THEN /\ refs' = [refs EXCEPT ![node] = FALSE]
               /\ storeID' = [storeID EXCEPT ![node] = 0]
          ELSE UNCHANGED <<refs, storeID>>
    /\ UNCHANGED <<hpc, blocks, ts>>
    /\ UNCHANGED senderVars
    /\ UNCHANGED <<vcall, fundsVars, msgVars, chanVars, loadVars, nodeVars, callbackVars, globalVars, rgs, req, optRF,
                   optAttemps, dpc, attempt, n, resChan, out, outClosed,
                   subscribed, recs, evts, rounds, completedEvts>>

NextEvents ==
    \E node \in PeerIDs, code \in EventCodes, recipient \in PeerIDs,
       baseCid \in Cids : TransportEvent(node, code, recipient, baseCid)

SpecEvents == InitEvents /\ [][NextEvents]_vars

-----------------------------------------------------------------------------
(***************************************************************************)
(* node.Load: the goroutine of a retrieval, from the moment the transfer   *)
(* is done (tx.Done()).                                                    *)
(***************************************************************************)

LoadStates == {"transfer", "setoffer", "setref", "report", "cleanup", "done"}

\* The reader of results (node.Get): handling the result it received, in
\* its receive, out of its loop because results was closed.
ConsumerStates == {"busy", "recv", "closed"}

\* The values of args.Key: the index only (""), or one key.
Keys == {"", "key"}

\* What the Index holds for the root: nothing, a ref from before the
\* retrieval, tx.Ref() inserted by SetRef, the old ref updated by UpdateRef.
IndexStates == {"none", "old", "set", "updated"}

notLoadVars ==
    <<pulls, authCalls, vcall, dispatchVars, fundsVars, msgVars, chanVars,
      sendVars, nodeVars, callbackVars, globalVars>>

InitLoad ==
    /\ NewReplication
    /\ NoDispatch
    /\ NoFunds
    /\ NoMsgs
    /\ NoChan
    /\ NoSend
    /\ NoNode
    /\ NoCallback
    /\ NoGlobal
    /\ lpc = "transfer"
    /\ argsKey \in Keys
    /\ resErr \in BOOLEAN
    /\ payCh \in BOOLEAN
    /\ mk \in 0 .. MaxMissingKeys
    /\ remain \in 0 .. MaxAmt
    /\ omg \in BOOLEAN
    /\ index \in {"none", "old"}
    /\ setRefErr = "nil"
    /\ results = << >>
    /\ consumer \in {"busy", "recv"}
    /\ received = << >>

\* "sendErr := func(err error) { select { case results <- GetResult{Err:
\*  err.Error()}: default: } }": results has no buffer, the send is taken
\* when the reader is in its receive and skipped otherwise.
sendErr(err) ==
    /\ results' = Append(results, err)
    /\ IF consumer = "recv"
          THEN /\ received' = Append(received, err)
               /\ consumer' = "busy"
          ELSE UNCHANGED <<consumer, received>>

\* "case res := <-tx.Done(): if res.Err != nil { sendErr(res.Err); return }"
LoadTxDone ==
    /\ lpc = "transfer"
    /\ IF resErr
          THEN /\ sendErr("res.Err")
               /\ lpc' = "done"
          ELSE /\ lpc' = "setoffer"
               /\ UNCHANGED <<results, consumer, received>>
    /\ UNCHANGED <<argsKey, resErr, payCh, mk, remain, omg, index, setRefErr>>
    /\ UNCHANGED notLoadVars

\* "if args.Key == "" { err := nd.omg.SetOffer(root, offer) ... }"
LoadSetOffer ==
    /\ lpc = "setoffer"
    /\ omg' = (IF argsKey = "" THEN TRUE ELSE omg)
    /\ lpc' = "setref"
    /\ UNCHANGED <<argsKey, resErr, payCh, mk, remain, index, setRefErr, results,
                   consumer, received>>
    /\ UNCHANGED notLoadVars

\* A mutation of RefErrSurfaced: every error of SetRef is sent.
AnyRefErrSurfaced(err) == err # "nil"

\* "if err == exchange.ErrRefAlreadyExists {...} else if err != nil
\*  { sendErr(err); return }": the errors of SetRef that are sent.
RefErrSurfaced(err) == err # "nil" /\ err # "ErrRefAlreadyExists"

\* "err = nd.exch.Index().SetRef(tx.Ref())" and what follows from its err;
\* SetRef may also fail for another reason than an existing ref.
LoadSetRef ==
    /\ lpc = "setref"
    /\ \E err \in {IndexSetRef(index # "none"), "other"} :
          /\ setRefErr' = err
          /\ index' = (IF err = "nil" THEN "set"
                       ELSE IF err = "ErrRefAlreadyExists" THEN "updated"
                       ELSE index)
          /\ IF RefErrSurfaced(err)
                THEN /\ sendErr("SetRef err")
                     /\ lpc' = "done"
                ELSE /\ lpc' = "report"
                     /\ UNCHANGED <<results, consumer, received>>
    /\ UNCHANGED <<argsKey, resErr, payCh, mk, remain, omg>>
    /\ UNCHANGED notLoadVars

\* "select { case results <- GetResult{Status: "Completed", ...}: ..."
LoadReport ==
    /\ lpc = "report"
    /\ consumer = "recv"
    /\ results' = Append(results, "Completed")
    /\ received' = Append(received, "Completed")
    /\ consumer' = "busy"
    /\ lpc' = "cleanup"
    /\ UNCHANGED <<argsKey, resErr, payCh, mk, remain, omg, index, setRefErr>>
    /\ UNCHANGED notLoadVars

\* "... case <-ctx.Done(): sendErr(ctx.Err()); return }"
LoadCtxDone ==
    /\ lpc = "report"
    /\ sendErr("ctx.Err")
    /\ lpc' = "done"
    /\ UNCHANGED <<argsKey, resErr, payCh, mk, remain, omg, index, setRefErr>>
    /\ UNCHANGED notLoadVars

\* "if res.PayCh != address.Undef { ... if len(mk) == 0 || remain.IsZero()
\*  { err := nd.omg.RemoveOffer(root) ... } }; return"
LoadCleanup ==
    /\ lpc = "cleanup"
    /\ omg' = (IF payCh /\ (mk = 0 \/ remain = 0) THEN FALSE ELSE omg)
    /\ lpc' = "done"
    /\ UNCHANGED <<argsKey, resErr, payCh, mk, remain, index, setRefErr, results,
                   consumer, received>>
    /\ UNCHANGED notLoadVars

\* node.Get: "for res := range results { ... nd.send(Notify{...}) }", the
\* body of the loop is done and the reader is back in its receive.
ConsumerHandled ==
    /\ consumer = "busy"
    /\ consumer' = "recv"
    /\ UNCHANGED <<lpc, argsKey, resErr, payCh, mk, remain, omg, index,
                   setRefErr, results, received>>
    /\ UNCHANGED notLoadVars

\* "defer close(results)" has run: the range loop of the reader ends.
ConsumerRangeEnds ==
    /\ consumer = "recv"
    /\ lpc = "done"
    /\ consumer' = "closed"
    /\ UNCHANGED <<lpc, argsKey, resErr, payCh, mk, remain, omg, index,
                   setRefErr, results, received>>
    /\ UNCHANGED notLoadVars

NextLoad ==
    \/ ConsumerHandled
    \/ ConsumerRangeEnds
    \/ LoadTxDone
    \/ LoadSetOffer
    \/ LoadSetRef
    \/ LoadReport
    \/ LoadCtxDone
    \/ LoadCleanup

SpecLoad == InitLoad /\ [][NextLoad]_vars

-----------------------------------------------------------------------------
(***************************************************************************)
(* The operations of the node that take the transaction mutex txmu, each   *)
(* called by any caller at any time.                                       *)
(***************************************************************************)

TxOps == {"Put", "Status", "Commit", "Get", "getRef"}

\* A caller: not in an operation, in nd.txmu.Lock(), past it.
TxStates == {"idle", "lock", "locked"}

notNodeVars ==
    <<pulls, authCalls, vcall, dispatchVars, fundsVars, msgVars, chanVars,
      sendVars, loadVars, callbackVars, globalVars>>

InitNode ==
    /\ NewReplication
    /\ NoDispatch
    /\ NoFunds
    /\ NoMsgs
    /\ NoChan
    /\ NoSend
    /\ NoLoad
    /\ NoNode
    /\ NoCallback
    /\ NoGlobal

\* A caller starts an operation and reaches its nd.txmu.Lock().
TxCall(c, op) ==
    /\ tpc[c] = "idle"
    /\ tpc' = [tpc EXCEPT ![c] = "lock"]
    /\ top' = [top EXCEPT ![c] = op]
    /\ UNCHANGED <<txmu, tx>>
    /\ UNCHANGED notNodeVars

\* "nd.txmu.Lock()"
TxLock(c) ==
    /\ tpc[c] = "lock"
    /\ txmu = 0
    /\ txmu' = c
    /\ tpc' = [tpc EXCEPT ![c] = "locked"]
    /\ UNCHANGED <<tx, top>>
    /\ UNCHANGED notNodeVars

\* The operation returns; released tells whether nd.txmu.Unlock() ran.
TxReturn(c, released) ==
    /\ tpc' = [tpc EXCEPT ![c] = "idle"]
    /\ txmu' = IF released THEN 0 ELSE txmu
    /\ UNCHANGED top

\* node.Commit: the paths on which nd.txmu.Unlock() runs before the return:
\* the ErrNoTx path and the path on which tx.Commit and SetRef succeeded.
CommitUnlocks(noTx, failed) == noTx \/ ~failed

\* node.Put, after "nd.txmu.Lock(); defer nd.txmu.Unlock()": nd.tx is set
\* when it was nil; the rest succeeds or fails.
Put(c) ==
    /\ tpc[c] = "locked" /\ top[c] = "Put"
    /\ tx' = TRUE
    /\ TxReturn(c, TRUE)
    /\ UNCHANGED notNodeVars

\* node.Status, after "nd.txmu.Lock(); defer nd.txmu.Unlock()".
Status(c) ==
    /\ tpc[c] = "locked" /\ top[c] = "Status"
    /\ UNCHANGED tx
    /\ TxReturn(c, TRUE)
    /\ UNCHANGED notNodeVars

\* node.Commit, after "nd.txmu.Lock()": with nd.tx == nil it unlocks and
\* sends ErrNoTx; when tx.Commit() or Index().SetRef(ref) fails it sends the
\* error and returns; otherwise "nd.tx = nil; nd.txmu.Unlock()".
Commit(c, failed) ==
    /\ tpc[c] = "locked" /\ top[c] = "Commit"
    /\ tx' = (tx /\ failed)
    /\ TxReturn(c, CommitUnlocks(~tx, failed))
    /\ UNCHANGED notNodeVars

\* node.Get, after "nd.txmu.Lock()": when nd.tx != nil and nd.tx.Root() ==
\* root (sameRoot) it serves the content from the transaction and returns,
\* otherwise "nd.txmu.Unlock()" and the retrieval.
Get(c, sameRoot) ==
    /\ tpc[c] = "locked" /\ top[c] = "Get"
    /\ UNCHANGED tx
    /\ TxReturn(c, ~(tx /\ sameRoot))
    /\ UNCHANGED notNodeVars

\* node.getRef, after "nd.txmu.Lock(); defer nd.txmu.Unlock()".
getRef(c) ==
    /\ tpc[c] = "locked" /\ top[c] = "getRef"
    /\ UNCHANGED tx
    /\ TxReturn(c, TRUE)
    /\ UNCHANGED notNodeVars

NextNode ==
    \/ \E c \in Callers, op \in TxOps : TxCall(c, op)
    \/ \E c \in Callers : TxLock(c)
    \/ \E c \in Callers : Put(c)
    \/ \E c \in Callers : Status(c)
    \/ \E c \in Callers, failed \in BOOLEAN : Commit(c, failed)
    \/ \E c \in Callers, sameRoot \in BOOLEAN : Get(c, sameRoot)
    \/ \E c \in Callers : getRef(c)

SpecNode == InitNode /\ [][NextNode]_vars

-----------------------------------------------------------------------------
(***************************************************************************)
(* AuthorizePull and ValidatePull called in any order with any arguments.  *)
(***************************************************************************)

InitPull ==
    /\ NewReplication
    /\ NoDispatch
    /\ NoFunds
    /\ NoMsgs
    /\ NoChan
    /\ NoSend
    /\ NoLoad
    /\ NoNode
    /\ NoCallback
    /\ NoGlobal

AuthorizePullCall(k, p) ==
    /\ pulls' = AuthorizePull(pulls, k, p)
    /\ authCalls' = authCalls \cup {<<k, p>>}
    /\ UNCHANGED vcall
    /\ UNCHANGED notPullVars

ValidatePullCall(receiver, voucher, baseCid) ==
    /\ vcall' = [receiver |-> receiver, voucher |-> voucher,
                 baseCid |-> baseCid,
                 result |-> ValidatePull(pulls, receiver, voucher, baseCid)]
    /\ UNCHANGED <<pulls, authCalls>>
    /\ UNCHANGED notPullVars

\* What a round of Dispatch does to the authorization sets:
\* "for _, p := range providers { r.AuthorizePull(req.PayloadCID, p) }"
DispatchAuthorize(k, providers) ==
    /\ pulls' = AuthorizeAll(pulls, k, providers)
    /\ authCalls' = authCalls \cup {<<k, p>> : p \in providers}
    /\ UNCHANGED vcall
    /\ UNCHANGED notPullVars

NextPull ==
    \/ \E k \in Cids, p \in PeerIDs : AuthorizePullCall(k, p)
    \/ \E k \in Cids, ps \in SUBSET PeerIDs : DispatchAuthorize(k, ps)
    \/ \E p \in PeerIDs, v \in Vouchers, c \in Cids : ValidatePullCall(p, v, c)

SpecPull == InitPull /\ [][NextPull]_vars

-----------------------------------------------------------------------------
(***************************************************************************)
(* One merged funds request, with no replication activity.                 *)
(***************************************************************************)
InitFundsReqs ==
    /\ NewReplication /\ NoDispatch /\ InitFunds /\ NoMsgs /\ NoChan
    /\ NoSend /\ NoLoad /\ NoNode /\ NoCallback /\ NoGlobal

SpecFunds == InitFundsReqs /\ [][NextFunds]_vars

-----------------------------------------------------------------------------
(***************************************************************************)
(* The messages of one channel and their listeners, with no replication    *)
(* activity and no funds request.                                          *)
(***************************************************************************)
InitMsg ==
    /\ NewReplication /\ NoDispatch /\ NoFunds /\ NoMsgs /\ NoChan
    /\ NoSend /\ NoLoad /\ NoNode /\ NoCallback /\ NoGlobal

SpecMsg == InitMsg /\ [][NextMsg]_vars

-----------------------------------------------------------------------------
(***************************************************************************)
(* One channel, with no replication activity, no funds request of a merge  *)
(* and no listener.                                                        *)
(***************************************************************************)
\* ---- the operations on all channels

globalFrame ==
    <<pulls, authCalls, vcall, dispatchVars, fundsVars, msgVars, chanVars,
      sendVars, loadVars, nodeVars, callbackVars>>

\* globalLock.Lock() is called: from now on no new reader is admitted.
GlobalLock ==
    /\ gw = "idle"
    /\ gw' = "waiting"
    /\ UNCHANGED globalFrame

\* globalLock.Lock() returns: the readers have left.
GlobalLockReturns ==
    /\ gw = "waiting"
    /\ readers = {}
    /\ gw' = "writing"
    /\ UNCHANGED globalFrame

\* globalLock.Unlock()
GlobalUnlock ==
    /\ gw = "writing"
    /\ gw' = "idle"
    /\ UNCHANGED globalFrame

NextGlobal ==
    \/ GlobalLock
    \/ GlobalLockReturns
    \/ GlobalUnlock

InitChan ==
    /\ NewReplication /\ NoDispatch /\ NoFunds /\ NoMsgs /\ NewChannel
    /\ NoSend /\ NoLoad /\ NoNode /\ NoCallback /\ NoGlobal

SpecChan == InitChan /\ [][NextChan]_vars

\* The operations of a channel together with the operations on all channels.
SpecLock == InitChan /\ [][NextChan \/ NextGlobal]_vars

-----------------------------------------------------------------------------
(***************************************************************************)
(* Claims on Dispatch.                                                     *)
(***************************************************************************)

\* C1: when at least opt.RF matching peers are connected and every peer
\* that received the Request completed its pull (and the dispatcher took
\* every confirmation reported to it), a finished Dispatch has yielded
\* exactly opt.RF PRecords on the channel it closed.
C1_QuorumWhenPeersSuffice ==
    ( /\ dpc = "done"
      /\ Cardinality(Matching(rgs)) >= optRF
      /\ \A p \in delivered : ts[p] = "completed"
      /\ resChan = << >> )
    => (outClosed /\ Len(Yielded) = optRF)

\* C2: no PRecord that Dispatch yields names a provider whose regions are
\* disjoint from the node's regions; with no matching peer connected, no
\* record is yielded.
C2_RegionFiltering ==
    /\ \A i \in 1 .. Len(Yielded) :
          PeerRegions(Yielded[i].Provider) \cap rgs # {}
    /\ (Matching(rgs) = {} => Yielded = << >>)

\* C2 witness: a peer outside the node's regions tried to pull, a record of
\* a matching peer reached the caller and Dispatch has finished.
C2_Witness ==
    /\ dpc = "done"
    /\ Len(recs) >= 1
    /\ \E p \in PeerIDs \ Matching(rgs) : ts[p] = "rejected"

\* C5: the PRecords yielded by one Dispatch call have pairwise distinct
\* providers.
C5_DistinctProviders ==
    \A i, j \in 1 .. Len(Yielded) :
        i # j => Yielded[i].Provider # Yielded[j].Provider

\* C6: with fewer than opt.RF matching peers, Dispatch returns only after
\* the attempts are exhausted, and at the moment it closes the channel it
\* has yielded exactly one PRecord per peer that completed a pull (no
\* confirmation being left unread in resChan).
C6_ScarcityOutcome ==
    [][ ( /\ Cardinality(Matching(rgs)) < optRF
          /\ dpc # "done"
          /\ dpc' = "done"
          /\ resChan' = << >> )
        => ( /\ attempt > optAttemps
             /\ outClosed'
             /\ \A p \in PeerIDs :
                   RecordsOf(recs' \o out', p)
                       = IF ts[p] = "completed" THEN 1 ELSE 0 ) ]_vars

-----------------------------------------------------------------------------
(***************************************************************************)
(* Claims on fundsReq and mergedFundsReq.                                  *)
(***************************************************************************)

\* sum() has returned.
SumReturned == opc \in {"msg", "isactive", "select", "done"}

\* The requests active when sum() started, and those active when it ended.
ActiveAtSumStart == UNION activeSeen

ActiveAtSumEnd == {r \in ReqIDs : \A A \in activeSeen : r \in A}

C8_OnCompleteResolvesWaiters ==
    /\ opc = "done" =>
          \A r \in ReqIDs :
              /\ cst[r] # "waiting"
              /\ cst[r] = "got" => got[r] = res
    /\ \A r \in ReqIDs : got[r] \in {NoRes, res}
    /\ opc \in {"isactive", "select"} =>
          ENABLED (OnCompleteIsActive \/ OnCompleteSend \/ OnCompleteCtxDone)

\* C8 witness: onComplete returned after it resolved the promises of two
\* waiting callers, or of one while another caller had cancelled.
C8_Witness ==
    /\ opc = "done"
    /\ \E r1, r2 \in ReqIDs :
          /\ r1 # r2
          /\ cst[r1] = "got" /\ got[r1] = res
          /\ cst[r2] = "cancelled"

\* C9: once newMergedFundsReq has returned and cancel() has returned for
\* every request of the merge, the merge context is cancelled.
C9_AllCancelledCancelsMerge ==
    ( /\ opc \notin {"new", "setparent", "check"}
      /\ \A r \in ReqIDs : cst[r] = "cancelled" )
    => ctxCancelled

\* C9 witness: every request is cancelled, one of them before its merge
\* parent was set and another after, and the context is cancelled.
C9_Witness ==
    /\ opc \notin {"new", "setparent", "check"}
    /\ \A r \in ReqIDs : cst[r] = "cancelled"
    /\ \E r \in ReqIDs : ~cm[r]
    /\ \E r \in ReqIDs : cm[r]
    /\ ctxCancelled

\* The callbacks that were registered with onMsgComplete.
RegisteredCallbacks == {c \in CallbackIDs : cbCid[c] # "none"}

\* C10: a callback registered for mcid before the waiter of mcid finished,
\* and still subscribed when it finishes, is invoked exactly once, with the
\* err the waiter recorded; a callback is never invoked for the completion
\* of another cid, nor before the waiter of its cid finished.
C10_CallbackFiredOnceForItsCid ==
    \A c \in RegisteredCallbacks :
        /\ \A i \in 1 .. Len(invoked[c]) : invoked[c][i].mcid = cbCid[c]
        /\ Len(invoked[c]) <= 1
        /\ invoked[c] # << >> =>
              /\ waiter[cbCid[c]] = "done"
              /\ invoked[c][1].err = msgResult[cbCid[c]]
        /\ (waiter[cbCid[c]] = "done" /\ ~cbLate[c] /\ c \in subs) =>
              Len(invoked[c]) = 1

\* C10 witness: two messages completed with different outcomes, and a
\* callback registered in time for one of them was invoked once, with the
\* outcome of its own message.
C10_Witness ==
    \E c \in RegisteredCallbacks :
        /\ \A m \in MsgCids : waiter[m] = "done"
        /\ \E m \in MsgCids : msgResult[m] # msgResult[cbCid[c]]
        /\ ~cbLate[c]
        /\ invoked[c] = <<msgCompleteEvt(cbCid[c], msgResult[cbCid[c]])>>

-----------------------------------------------------------------------------
(***************************************************************************)
(* Claims on the channel: create, addFunds, the waiters and the locks.     *)
(***************************************************************************)

\* The waiter of m is past the store access of wait...Msg.
PastWait(m) ==
    wpc[m] \in {"w_runlock", "w_unlock", "c_lock", "c_rlock", "c_save", "c_fire",
                "c_runlock", "c_unlock", "done"}

\* The waiter of m is past fireMsgComplete.
PastFire(m) == wpc[m] \in {"c_runlock", "c_unlock", "done"}

\* The write of mutateChannelInfo by the waiter of m is this step.
WritesRecord(m) == wpc[m] = "w_write" /\ wpc'[m] = "w_runlock"

\* The events published for m.
PublishedFor(m) == {e \in published : e.mcid = m}

C12_CreateConfirmed ==
    [][\A m \in MsgCids :
         (WritesRecord(m) /\ kind[m] = "create" /\ wout[m] = "ok") =>
            /\ chanInfo.present /\ chanInfo'.present
            /\ chanInfo'.Channel = RobustAddress(m)
            /\ chanInfo'.Amount = chanInfo.PendingAmount
            /\ chanInfo'.Amount = wpre[m].PendingAmount
            /\ chanInfo'.PendingAmount = 0
            /\ chanInfo'.CreateMsg = "nil"]_vars

\* C12 witness: the record right after that write, for an amount of 2.
C12_Witness ==
    /\ kind["m1"] = "create" /\ wout["m1"] = "ok"
    /\ wpc["m1"] = "w_runlock"
    /\ chanInfo.Channel = RobustAddress("m1")
    /\ chanInfo.Amount = 2
    /\ chanInfo.PendingAmount = 0
    /\ chanInfo.CreateMsg = "nil"

C14_AddFundsConfirmed ==
    [][\A m \in MsgCids :
         (WritesRecord(m) /\ kind[m] = "addfunds" /\ wout[m] = "ok") =>
            /\ chanInfo.present
            /\ chanInfo.PendingAmount = wpre[m].PendingAmount
            /\ chanInfo' =
                 [chanInfo EXCEPT
                     !.Amount = chanInfo.Amount + chanInfo.PendingAmount,
                     !.PendingAmount = 0,
                     !.AddFundsMsg = "nil"]]_vars

\* C14 witness: the record right after that write: 1 was added to 2.
C14_Witness ==
    /\ kind["m2"] = "addfunds" /\ wout["m2"] = "ok"
    /\ wpc["m2"] = "w_runlock"
    /\ wpre["m2"].Amount = 2 /\ wpre["m2"].PendingAmount = 1
    /\ chanInfo.Amount = 3
    /\ chanInfo.PendingAmount = 0
    /\ chanInfo.AddFundsMsg = "nil"
    /\ chanInfo.Channel = RobustAddress("m1")

\* C15: the write made for an add-funds message confirmed with a non-zero
\* exit code zeroes PendingAmount, clears AddFundsMsg and changes nothing
\* else; the one completion published for it carries an error.
C15_AddFundsFailed ==
    /\ [][\A m \in MsgCids :
            (WritesRecord(m) /\ kind[m] = "addfunds" /\ wout[m] = "exit") =>
               /\ chanInfo.present
               /\ chanInfo' =
                    [chanInfo EXCEPT !.PendingAmount = 0,
                                     !.AddFundsMsg = "nil"]]_vars
    /\ [](\A m \in MsgCids :
            (kind[m] = "addfunds" /\ wout[m] = "exit") =>
               /\ \A e \in PublishedFor(m) : e.err # "nil"
               /\ PastFire(m) => PublishedFor(m) # {})

\* C15 witness: the waiter of a failed add-funds message returned; the
\* record kept its Amount and has nothing pending.
C15_Witness ==
    /\ kind["m2"] = "addfunds" /\ wout["m2"] = "exit"
    /\ wpc["m2"] = "done"
    /\ chanInfo.present
    /\ wpre["m2"].PendingAmount > 0
    /\ chanInfo.Amount = wpre["m2"].Amount
    /\ chanInfo.PendingAmount = 0
    /\ chanInfo.AddFundsMsg = "nil"
    /\ msgCompleteEvt("m2", "exit code") \in published

Quiescent ==
    /\ cpc = "idle"
    /\ \A m \in MsgCids : wpc[m] \in {"none", "done"}

\* C17: the queue never stalls: when nothing runs on the channel and
\* requests are queued, a message is outstanding.
C17_QueueNeverStalls ==
    (Quiescent /\ queue > 0 /\ nmsg < Len(MsgSeq)) => Outstanding(chanInfo)

\* C18: a goroutine that holds a channel's chanLock holds the global read
\* lock: Lock takes the global read lock first and Unlock releases it last.
C18_GlobalReadLockFirst ==
    /\ chanLock # "free" => chanLock \in readers
    /\ xpc # "idle" => "other" \in readers

\* C18 amended: a goroutine that holds the global read lock through a
\* multiLock holds that multiLock's chanLock: Lock takes chanLock first and
\* the global read lock second, Unlock releases the global read lock first
\* and chanLock second.
C18_ChanLockFirst ==
    /\ \A p \in readers \ {"other"} : chanLock = p
    /\ "other" \in readers => xpc = "locked"

\* C18 witness: one goroutine is inside Lock() with chanLock only, another
\* is inside Unlock() with its chanLock only.
C18_Witness ==
    /\ cpc = "rlock"
    /\ chanLock = "caller"
    /\ "caller" \notin readers
    /\ xpc = "runlocked"
    /\ "other" \notin readers

\* C19, for the removal of the record in the failed-create path: it does
\* not overlap an operation of another channel.
C19_RemovalExcludesOtherChannels ==
    [][(chanInfo.present /\ ~chanInfo'.present) => "other" \notin readers]_vars

\* The goroutines that are between Lock() and Unlock() of ch.lk.
InCriticalSection ==
    {p \in {"caller"} : cpc \in {"process", "af_write"}}
        \cup {m \in MsgCids : wpc[m] \in {"w_op", "w_write", "c_save", "c_fire"}}

\* C20: at most one operation is between Lock() and Unlock() of the
\* channel's lock, it holds chanLock, and the record a mutateChannelInfo
\* writes back is built from the current record: no update is lost.
C20_ChannelOperationsOrdered ==
    /\ Cardinality(InCriticalSection) <= 1
    /\ \A p \in InCriticalSection : chanLock = p /\ p \in readers
    /\ cpc = "af_write" => clocal = chanInfo
    /\ \A m \in MsgCids : wpc[m] = "w_write" => wlocal[m] = chanInfo

\* C20 witness: addFunds is between its read and its write of the record
\* while the waiter of the create message waits for the lock in
\* msgWaitComplete.
C20_Witness ==
    /\ cpc = "af_write"
    /\ chanLock = "caller"
    /\ wpc["m1"] = "c_lock"
    /\ kind["m1"] = "create"
    /\ clocal = chanInfo

-----------------------------------------------------------------------------
(***************************************************************************)
(* Claims on AuthorizePull and ValidatePull.                               *)
(***************************************************************************)

\* C3: ValidatePull of (receiver, root) succeeds exactly when
\* AuthorizePull(root, receiver) was called before, whatever the voucher;
\* authorizing one root or receiver authorizes no other pair.
C3_AuthorizationSafety ==
    \A c \in Cids, p \in PeerIDs, v \in Vouchers :
        (ValidatePull(pulls, p, v, c) = "ok") <=> (<<c, p>> \in authCalls)

\* C3 witness: after some AuthorizePull calls, a ValidatePull call of an
\* authorized pair succeeded while the same receiver is not authorized for
\* another root and another receiver is not authorized for this root.
C3_Witness ==
    /\ vcall.result = "ok"
    /\ <<vcall.baseCid, vcall.receiver>> \in authCalls
    /\ \E c \in Cids \ {vcall.baseCid} : <<c, vcall.receiver>> \notin authCalls
    /\ \E p \in PeerIDs \ {vcall.receiver} : <<vcall.baseCid, p>> \notin authCalls
    /\ Cardinality(authCalls) >= 2

\* C4: ValidatePull accepts only a voucher that is a Request whose root is
\* baseCid.
C4_VoucherChecked ==
    vcall.result = "ok"
        => /\ vcall.voucher.type = "DispatchRequestVoucher"
           /\ vcall.voucher.PayloadCID = vcall.baseCid


-----------------------------------------------------------------------------
(***************************************************************************)
(* The rounds of Dispatch.                                                 *)
(***************************************************************************)

\* The peers selected in round i whose Request did not reach them, or whose
\* pull was rejected.
LostOrRejected(i) ==
    {p \in rounds[i].providers :
        p \notin rounds[i].written \/ ts[p] = "rejected"}

\* C22: when Dispatch has given up short of opt.RF confirmations, every
\* peer selected in a round before the last one whose Request was lost or
\* whose pull was rejected was selected, and so sent the Request, again in a
\* later round.
C22_LostPeerSentAgain ==
    (dpc = "done" /\ n < optRF)
    => \A i \in 1 .. Len(rounds) :
          \A p \in LostOrRejected(i) :
              i < Len(rounds) => \E j \in (i + 1) .. Len(rounds) :
                                    p \in rounds[j].providers

\* The rounds select pairwise disjoint sets of peers, and no peer had the
\* Request written to its stream in two rounds.
RoundsDisjoint ==
    /\ \A i, j \in 1 .. Len(rounds) :
          i < j => rounds[i].providers \cap rounds[j].providers = {}
    /\ \A p \in PeerIDs :
          Cardinality({i \in 1 .. Len(rounds) : p \in rounds[i].written}) <= 1

CompletedRecords == [i \in 1 .. Len(completedEvts) |-> PRecord(completedEvts[i], req)]

IsPrefix(s, t) == Len(s) <= Len(t) /\ \A i \in 1 .. Len(s) : s[i] = t[i]

-----------------------------------------------------------------------------
(***************************************************************************)
(* The authorization sets over time.                                       *)
(***************************************************************************)

\* C27: AuthorizePull(k, p) adds p to the set of k and changes nothing else,
\* and a second call with the same arguments changes nothing; no step of
\* AuthorizePull, ValidatePull or Dispatch removes a root or a peer from the
\* authorization sets.
C27_AuthorizationOnlyGrows ==
    /\ [](\A k \in Cids, p \in PeerIDs :
            LET a == AuthorizePull(pulls, k, p)
            IN  /\ DOMAIN a = DOMAIN pulls \cup {k}
                /\ a[k] = (IF k \in DOMAIN pulls THEN pulls[k] ELSE {}) \cup {p}
                /\ \A c \in DOMAIN pulls \ {k} : a[c] = pulls[c]
                /\ AuthorizePull(a, k, p) = a)
    /\ [][\A k \in DOMAIN pulls :
             k \in DOMAIN pulls' /\ pulls[k] \subseteq pulls'[k]]_vars

\* C27 witness: every peer is authorized for both roots and a pull was
\* validated.
C27_Witness ==
    /\ DOMAIN pulls = Cids
    /\ \A k \in Cids : pulls[k] = PeerIDs
    /\ vcall.result = "ok"

-----------------------------------------------------------------------------
(***************************************************************************)
(* The round statement by statement, and the receivers.                    *)
(***************************************************************************)

\* C21: every DataRef the Index of a peer holds has its blocks in the store
\* of the peer, also between handleRequest registering the DataRef and the
\* completion or failure of the pull.
C21_RefsHaveBlocks == \A p \in PeerIDs : refs[p] => blocks[p]

\* C28: a Request is written to the stream of a peer only after
\* AuthorizePull(req.PayloadCID, p) returned, and the pull of a peer is never
\* rejected.
C28_AuthorizedBeforeRequest ==
    /\ \A p \in PeerIDs :
          streams[p].written > 0
              => (req \in DOMAIN pulls /\ p \in pulls[req] /\ <<req, p>> \in authCalls)
    /\ \A p \in PeerIDs : ts[p] # "rejected"

\* C28 witness: the round had two peers, the first one pulls while the
\* Request of the second one is not written yet.
C28_Witness ==
    /\ Len(sendPeers) = 2
    /\ ts[sendPeers[1]] = "ongoing"
    /\ streams[sendPeers[2]].written = 0
    /\ spc # "done"

\* The position of p in the slice of the round, 0 for other peers.
PositionOf(p) ==
    IF \E i \in 1 .. Len(sendPeers) : sendPeers[i] = p
        THEN CHOOSE i \in 1 .. Len(sendPeers) : sendPeers[i] = p
        ELSE 0

\* C30: sendAllRequests calls NewRequestStream once per peer, writes one
\* Request to each stream it opened and then closes it, whether or not the
\* write failed; when it returns every peer of the slice was tried, whatever
\* happened to the peers before it.
C30_OneRequestPerStream ==
    /\ \A p \in PeerIDs :
          /\ streams[p].tried <= 1
          /\ streams[p].opened <= streams[p].tried
          /\ streams[p].written <= streams[p].opened
          /\ streams[p].closed <= streams[p].written
          /\ (p \in delivered => streams[p].written = 1)
          /\ (spc = "open" /\ PositionOf(p) < si)
                => streams[p].closed = streams[p].opened
    /\ spc = "done"
          => \A p \in PeerIDs :
                /\ streams[p].tried = (IF PositionOf(p) > 0 THEN 1 ELSE 0)
                /\ streams[p].written = streams[p].opened
                /\ streams[p].closed = streams[p].opened

\* C30 witness: the write to the first peer failed and its stream was
\* closed, and the second peer of the slice got the Request.
C30_Witness ==
    /\ spc = "done"
    /\ Len(sendPeers) = 2
    /\ streams[sendPeers[1]].closed = 1
    /\ sendPeers[1] \notin delivered
    /\ sendPeers[2] \in delivered

-----------------------------------------------------------------------------
(***************************************************************************)
(* The end of a retrieval.                                                 *)
(***************************************************************************)

\* Load sent a result with the given status.
Reported(status) == \E i \in 1 .. Len(results) : results[i] = status

\* C25: when Load returns after a retrieval that completed, the offer it
\* had cached for the root is still cached if and only if keys of the root
\* are still missing, with or without a payment channel.
C25_OfferKeptIffKeysRemain ==
    [][ (lpc = "cleanup" /\ lpc' = "done")
        => (omg' <=> (omg /\ mk > 0)) ]_vars

-----------------------------------------------------------------------------
(***************************************************************************)
(* The Index of the receivers.                                             *)
(***************************************************************************)

\* The peer held the content before the round: its blocks are not those of
\* a pull of this round.
HeldBefore(p) == blocks[p] /\ ts[p] # "completed"

\* C31: a pull channel is opened only by a handler that read the Request
\* and whose SetRef registered a DataRef with the store id it allocated; a
\* handler whose ReadRequest or SetRef failed opens no pull channel and
\* leaves the ref the Index held, and its blocks, as they were.
C31_PullOnlyAfterRegistration ==
    /\ [](\A p \in PeerIDs :
            /\ ts[p] # "none" => (p \in delivered /\ hpc[p] = "done")
            /\ hpc[p] = "open" => (refs[p] /\ storeID[p] = MsNext(0) /\ ~blocks[p])
            /\ HeldBefore(p) => (ts[p] = "none" /\ refs[p] /\ storeID[p] = 1)
            /\ (hpc[p] = "done" /\ p \notin delivered)
                  => (ts[p] = "none" /\ refs[p] = blocks[p]))
    /\ [][\A p \in PeerIDs :
            /\ (ts[p] = "none" /\ ts'[p] # "none")
                  => (hpc[p] = "open" /\ refs[p] /\ storeID[p] # 0)
            /\ (hpc[p] \in {"read", "setref"} /\ hpc'[p] = "done")
                  => ( /\ refs'[p] = refs[p]
                       /\ storeID'[p] = storeID[p]
                       /\ blocks'[p] = blocks[p]
                       /\ ts'[p] = "none" )]_vars

\* C31 witness: one peer registered a ref and pulls, the handler of another
\* returned because its Index held a ref of the root already.
C31_Witness ==
    \E p, q \in PeerIDs :
        /\ ts[p] = "ongoing" /\ refs[p] /\ ~blocks[p]
        /\ hpc[q] = "done" /\ q \in delivered /\ HeldBefore(q)

\* C32: an event handed to the subscriber drops the DataRef of its base cid
\* from the Index of the node when its code is Error and the recipient of
\* the transfer is the node; every other event leaves every Index as it was.
C32_ErrorDropsRecipientRef ==
    [][ (lastEvt' # lastEvt)
        => IF lastEvt'.code = "Error" /\ lastEvt'.recipient = lastEvt'.node
              /\ lastEvt'.baseCid = req
              THEN /\ refs' = [refs EXCEPT ![lastEvt'.node] = FALSE]
                   /\ storeID' = [storeID EXCEPT ![lastEvt'.node] = 0]
              ELSE UNCHANGED <<refs, storeID>> ]_vars

\* C32 witness: the ref of a node was dropped by an Error event of a
\* transfer it was the recipient of, after which an Error event of a
\* transfer of another recipient left the ref of the other node in place.
C32_Witness ==
    \E p \in PeerIDs :
        /\ blocks[p] /\ ~refs[p]
        /\ lastEvt.code = "Error" /\ lastEvt.recipient = p /\ lastEvt.node # p
        /\ refs[lastEvt.node]

-----------------------------------------------------------------------------
(***************************************************************************)
(* msgWaitComplete and the end of the waiters.                             *)
(***************************************************************************)

-----------------------------------------------------------------------------
(***************************************************************************)
(* The transaction mutex of the node.                                      *)
(***************************************************************************)

\* C34: txmu is held only by a caller that is inside an operation: an
\* operation that returned has released it.
C34_TxmuReleasedOnReturn ==
    txmu # 0 => tpc[txmu] = "locked"

-----------------------------------------------------------------------------
(***************************************************************************)
(* The subscriber of Dispatch and the confirmation channel.                *)
(***************************************************************************)

\* C35: a callback that is in its send on resChan is never stuck: the buffer
\* has room for its record, or the dispatcher has not returned and can still
\* receive.
C35_SendNeverStuck ==
    sending # << >> => (Len(resChan) < optRF \/ dpc # "done")

-----------------------------------------------------------------------------
(***************************************************************************)
(* The record of the channel after a waiter returned.                      *)
(***************************************************************************)

\* C36: once the waiter of a message has returned, the record of the
\* channel, if there is one, no longer names that message as its CreateMsg
\* or AddFundsMsg, and with no message outstanding its PendingAmount is
\* zero.
C36_RecordClearedWhenWaiterDone ==
    \A m \in MsgCids :
        (wpc[m] = "done" /\ chanInfo.present) =>
            /\ chanInfo.CreateMsg # m
            /\ chanInfo.AddFundsMsg # m
            /\ ~Outstanding(chanInfo) => chanInfo.PendingAmount = 0

-----------------------------------------------------------------------------
(***************************************************************************)
(* The context of a merged funds request.                                  *)
(***************************************************************************)

\* C37: the context of the merge is cancelled only when none of its
\* requests is active, and a request that is inactive stays inactive.
C37_CancelledOnlyWhenNoneActive ==
    /\ [](ctxCancelled => ActiveReqs = {})
    /\ [][\A r \in ReqIDs : ~active[r] => ~active'[r]]_vars

\* C37 witness: a request was cancelled after its merge parent was set and
\* its cancel() ran checkActive to the end while another request is active;
\* the context is not cancelled.
C37_Witness ==
    /\ \E r \in ReqIDs : cst[r] = "cancelled" /\ cm[r]
    /\ ActiveReqs # {}
    /\ ~ctxCancelled

-----------------------------------------------------------------------------
(***************************************************************************)
(* The multiLock of a channel and the writer of the global lock.           *)
(***************************************************************************)

\* The queue processor is blocked in multiLock.Lock().
CallerWaits ==
    \/ cpc = "lock" /\ chanLock # "free"
    \/ cpc = "rlock" /\ ~RLockAdmits

\* The waiter of m is blocked in multiLock.Lock().
WaiterWaits(m) ==
    \/ wpc[m] \in {"w_lock", "c_lock"} /\ chanLock # "free"
    \/ wpc[m] \in {"w_rlock", "c_rlock"} /\ ~RLockAdmits

\* The operation of the other channel is blocked in multiLock.Lock().
OtherWaits == xpc = "chan" /\ ~RLockAdmits

\* The writer is blocked in globalLock.Lock().
WriterWaits == gw = "waiting" /\ readers # {}

\* Somebody who is in Lock or holds a lock can take its next step.
SomebodyRuns ==
    \/ cpc # "idle" /\ ~CallerWaits
    \/ \E m \in MsgCids : wpc[m] \notin {"none", "wait", "done"} /\ ~WaiterWaits(m)
    \/ xpc # "idle" /\ ~OtherWaits
    \/ gw # "idle" /\ ~WriterWaits

\* C38: no state is a deadlock of the locks: whenever an operation is blocked
\* in multiLock.Lock() or the writer in globalLock.Lock(), somebody who is in
\* Lock or holds a lock is not blocked.
C38_NoLockDeadlock ==
    (CallerWaits \/ (\E m \in MsgCids : WaiterWaits(m)) \/ OtherWaits
        \/ WriterWaits)
    => SomebodyRuns

\* C38 witness: the writer waits for a reader to leave, and the queue
\* processor, holding its chanLock, is kept out of the read lock by the
\* waiting writer.
C38_Witness ==
    /\ gw = "waiting"
    /\ readers # {}
    /\ cpc = "rlock"
    /\ chanLock = "caller"

-----------------------------------------------------------------------------
(***************************************************************************)
(* The messages that create pushed.                                        *)
(***************************************************************************)

\* The messages that mpoolPush has pushed so far.
PushedMsgs == {MsgSeq[i] : i \in 1 .. nmsg}

\* C39: every message that was pushed is tracked: its waiter was started,
\* and for a create message the record written when the waiter was started
\* has the message as CreateMsg and its amount as PendingAmount.
C39_PushedCreateIsTracked ==
    \A m \in PushedMsgs :
        /\ wpc[m] # "none"
        /\ kind[m] = "create" =>
              /\ wpre[m].present
              /\ wpre[m].CreateMsg = m
              /\ wpre[m].PendingAmount \in FundAmounts

-----------------------------------------------------------------------------
(***************************************************************************)
(* The results channel of Load and its reader.                             *)
(***************************************************************************)

\* What sendErr is called with.
LoadErrs == {"res.Err", "SetRef err", "ctx.Err"}

\* C40: once Load has returned and results is closed, every error Load
\* passed to sendErr has been received by the reader of results.
C40_FailureDelivered ==
    lpc = "done" =>
        \A i \in 1 .. Len(results) :
            results[i] \in LoadErrs =>
                \E j \in 1 .. Len(received) : received[j] = results[i]

=============================================================================
